---- MODULE Spec2Model ----
(***************************************************************************)
(* The DNS wire codec of custom-dns-server: the message buffer with its    *)
(* name decompression, the Qname value, the header, question, record and   *)
(* message codecs.  Byte strings are sequences of integers 0..255; offsets *)
(* are 0-based as in the source, so the byte at offset p of b is b[p+1].   *)
(* A Rust String is the sequence of its UTF-8 bytes.                       *)
(***************************************************************************)
EXTENDS Integers, Sequences, FiniteSets, TLC

VARIABLES
    pc,      \* the call the codec performed last
    buf,     \* ByteMessageBuffer.buf: the datagram the parsers may jump in
    sent,    \* how the sender laid out the name in buf (NoName: raw bytes)
    i,       \* the nom input handed to the last parser (a suffix of buf)
    res,     \* the ParseResult of the last parser call
    qname,   \* Result<Qname, QnameError> of the last constructor
    other,   \* the second operand of ends_with
    ends,    \* the value ends_with returned
    out,     \* the bytes the last serializer wrote
    rec,     \* the DnsRecord at hand
    msg,     \* the DnsMessage at hand
    sel,     \* the Option a selector of the message returned
    request, \* the client's request the resolver task works on
    stack,   \* the resolutions in progress, the innermost last
    queries, \* the upstream queries sent so far, in order
    reply,   \* the upstream reply parsed last
    client   \* the reply built for the client

msgVars == <<rec, msg, sel>>

resolverVars == <<request, stack, queries, reply, client>>

vars == <<pc, buf, sent, i, res, qname, other, ends, out, msgVars, resolverVars>>

None == [ok |-> FALSE, err |-> "none"]
NoName == [k |-> -1]
Whole(m) == [k |-> -2, full |-> m]

\* ------------------------------------------------------------------ bounds

MaxRaw == 4
MaxChain == 7
MaxCycle == 2
MaxExtra == 3
MaxRecs == 2
MaxSection == 2
MaxDepth == 2
MaxLog == 2

\* --------------------------------------------------------- program constants

MAX_DNS_MSG_SIZE == 512
MAX_JUMPS == 5
MAX_QNAME_LEN == 255
MAX_LABEL_LEN == 63
DNS_HEADER_LEN == 12

\* ------------------------------------------------------------ small helpers

RECURSIVE Concat(_)
Concat(ss) == IF ss = <<>> THEN <<>> ELSE Head(ss) \o Concat(Tail(ss))

Drop(s, n) == SubSeq(s, n + 1, Len(s))

Take(s, n) == SubSeq(s, 1, n)

Rep(n, b) == [k \in 1..n |-> b]

Ok(v) == [ok |-> TRUE, val |-> v]

Err(e, v) == [ok |-> FALSE, err |-> e, val |-> v]

\* ------------------------------------------------------------------- Qname

\* String::from_utf8_lossy on a label.  ASCII bytes stand for themselves, the
\* well-formed sequence EF BF BD (U+FFFD) is kept, and a byte that can never
\* occur in UTF-8 (0xC0 is the only other high byte of the inputs below)
\* becomes U+FFFD.
RECURSIVE from_utf8_lossy(_)
from_utf8_lossy(bs) ==
    IF bs = <<>> THEN <<>>
    ELSE IF Head(bs) < 128 THEN <<Head(bs)>> \o from_utf8_lossy(Tail(bs))
    ELSE IF Len(bs) >= 3 /\ SubSeq(bs, 1, 3) = <<239, 191, 189>>
    THEN <<239, 191, 189>> \o from_utf8_lossy(SubSeq(bs, 4, Len(bs)))
    ELSE <<239, 191, 189>> \o from_utf8_lossy(Tail(bs))

\* str::to_lowercase: A..Z become a..z, U+FFFD and the rest are unchanged.
to_lowercase(s) == [k \in 1..Len(s) |-> IF s[k] \in 65..90 THEN s[k] + 32 ELSE s[k]]

\* The label pushed to `qnames` for the bytes of one wire label.
LabelString(byte_str) == to_lowercase(from_utf8_lossy(byte_str))

\* The first label that fails `x.len() < MAX_LABEL_LEN`, 0 when none does:
\* collect::<Result<..>>() stops at the first Err.
RECURSIVE FirstBadLabel(_, _)
FirstBadLabel(labels, k) ==
    IF k > Len(labels) THEN 0
    ELSE IF Len(labels[k]) < MAX_LABEL_LEN THEN FirstBadLabel(labels, k + 1)
    ELSE k

RECURSIVE SumLens(_)
SumLens(labels) ==
    IF labels = <<>> THEN 0 ELSE Len(Head(labels)) + 1 + SumLens(Tail(labels))

\* impl TryFrom<Vec<String>> for Qname
Qname_try_from_vec(value) ==
    LET bad == FirstBadLabel(value, 1) IN
    IF bad # 0 THEN Err("BadLabelLen", Len(value[bad]))
    ELSE IF SumLens(value) + 1 > MAX_QNAME_LEN THEN Err("BadTotalLen", 0)
    ELSE Ok(value)

\* str::split('.'): always at least one piece, empty pieces are kept.
RECURSIVE split(_, _)
split(s, sep) ==
    IF \A k \in 1..Len(s) : s[k] # sep THEN <<s>>
    ELSE LET k == CHOOSE k \in 1..Len(s) :
                      s[k] = sep /\ \A m \in 1..(k - 1) : s[m] # sep
         IN <<SubSeq(s, 1, k - 1)>> \o split(Drop(s, k), sep)

\* Qname::split_strings
split_strings(value) ==
    IF Len(value) > MAX_QNAME_LEN THEN Err("BadTotalLen", 0)
    ELSE LET labels == split(value, 46)
             bad == FirstBadLabel(labels, 1)
         IN IF bad # 0 THEN Err("BadLabelLen", Len(labels[bad])) ELSE Ok(labels)

\* impl TryFrom<&str> for Qname, impl TryFrom<String> for Qname
Qname_try_from_str(value) == split_strings(value)

\* A Qname::serialize that leaves out the final be_u8(0).
Qname_serialize_NoZero(q) ==
    Concat([k \in 1..Len(q) |-> <<Len(q[k]) % 256>> \o q[k]])

\* Qname::serialize: be_u8(x.len() as u8), string(x) per label, then be_u8(0).
Qname_serialize(q) ==
    Concat([k \in 1..Len(q) |-> <<Len(q[k]) % 256>> \o q[k]]) \o <<0>>

\* serialized_size counting the label bytes and length octets only.
Qname_serialized_size_NoZero(q) == Ok(SumLens(q))

\* Qname::serialized_size: the name is written into a buffer of MAX_QNAME_LEN
\* bytes and the unwrap panics when it does not fit.
Qname_serialized_size(q) ==
    IF Len(Qname_serialize(q)) > MAX_QNAME_LEN THEN Err("panic", 0)
    ELSE Ok(Len(Qname_serialize(q)) % 65536)

\* Qname::ends_with: zip stops at the shorter of the two reversed iterators.
ends_with(a, b) ==
    LET n == IF Len(a) < Len(b) THEN Len(a) ELSE Len(b) IN
    \A k \in 1..n : a[Len(a) - k + 1] = b[Len(b) - k + 1]

\* ---------------------------------------------------------- message buffer

\* self.buf[pos]: indexing a slice out of range panics.
Index(b, pos) == IF pos < Len(b) THEN Ok(b[pos + 1]) ELSE Err("panic", pos)

\* &self.buf[start..end]: slicing out of range panics.
Slice(b, start, end) ==
    IF start <= end /\ end <= Len(b) THEN Ok(SubSeq(b, start + 1, end))
    ELSE Err("panic", end)

\* peek_u8 with the bound test `pos > self.buf.len()`.
peek_u8_OffByOne(b, pos) ==
    IF pos > Len(b) THEN Err("BoundError", pos) ELSE Index(b, pos)

\* ByteMessageBuffer::peek_u8
peek_u8(b, pos) ==
    IF pos >= Len(b) THEN Err("BoundError", pos) ELSE Index(b, pos)

\* A peek_range that slices without the bounds check: the slice panics when
\* it ends after the buffer.
peek_range_Unchecked(b, start, len) ==
    IF start + len > Len(b) THEN Err("panic", start + len)
    ELSE Slice(b, start, start + len)

\* ByteMessageBuffer::peek_range
peek_range(b, start, len) ==
    IF start + len >= Len(b) THEN Err("BoundError", start + len)
    ELSE Slice(b, start, start + len)

\* The guard with `>=` in place of `>`.
JumpLimitExceeded_Early(jumps_performed) == jumps_performed >= MAX_JUMPS

\* The guard at the top of read_qname's loop.
JumpLimitExceeded(jumps_performed) == jumps_performed > MAX_JUMPS

\* The locals of read_qname at loop entry.
RqInit(b, input) ==
    [pos |-> Len(b) - Len(input), jumps_performed |-> 0, qnames |-> <<>>,
     consumed |-> 0, st |-> "loop", err |-> "none", at |-> 0]

\* One iteration of read_qname's loop.
RqStep(b, s) ==
    IF JumpLimitExceeded(s.jumps_performed)
    THEN [s EXCEPT !.st = "err", !.err = "JumpLimitExceeded"]
    ELSE
    LET len == peek_u8(b, s.pos) IN
    IF ~len.ok THEN [s EXCEPT !.st = "err", !.err = len.err, !.at = len.val]
    ELSE IF len.val >= 192
    THEN LET b2 == peek_u8(b, s.pos + 1) IN
         IF ~b2.ok
         THEN [s EXCEPT !.st = "err", !.err = b2.err, !.at = b2.val]
         ELSE [s EXCEPT !.pos = ((len.val - 192) * 256) + b2.val,
                        !.consumed = IF s.jumps_performed = 0 THEN @ + 1 ELSE @,
                        !.jumps_performed = @ + 1]
    ELSE IF len.val = 0
    THEN [s EXCEPT !.consumed = IF s.jumps_performed = 0 THEN @ + 1 ELSE @,
                   !.st = "break"]
    ELSE LET byte_str == peek_range(b, s.pos + 1, len.val) IN
         IF ~byte_str.ok
         THEN [s EXCEPT !.pos = @ + 1, !.st = "err", !.err = byte_str.err,
                        !.at = byte_str.val]
         ELSE [s EXCEPT !.qnames = Append(@, LabelString(byte_str.val)),
                        !.pos = @ + 1 + len.val,
                        !.consumed = IF s.jumps_performed = 0
                                     THEN @ + len.val + 1 ELSE @]

RECURSIVE RqLoop(_, _)
RqLoop(b, s) == IF s.st # "loop" THEN s ELSE RqLoop(b, RqStep(b, s))

\* ByteMessageBuffer::read_qname applied to the input `input`.  `jumps` is the
\* value of jumps_performed when the closure returns.  rest = &i[consumed..]
\* is evaluated before Qname::try_from and panics when out of range.
read_qname(b, input) ==
    LET s == RqLoop(b, RqInit(b, input)) IN
    IF s.st = "err"
    THEN [ok |-> FALSE, err |-> s.err, val |-> s.at,
          fail |-> IF s.err = "panic" THEN "panic" ELSE "Failure",
          jumps |-> s.jumps_performed]
    ELSE IF s.consumed > Len(input)
    THEN [ok |-> FALSE, err |-> "panic", val |-> s.consumed, fail |-> "panic",
          jumps |-> s.jumps_performed]
    ELSE LET q == Qname_try_from_vec(s.qnames) IN
         IF ~q.ok
         THEN [ok |-> FALSE, err |-> q.err, val |-> q.val, fail |-> "Failure",
               jumps |-> s.jumps_performed]
         ELSE [ok |-> TRUE, val |-> q.val, rest |-> Drop(input, s.consumed),
               jumps |-> s.jumps_performed]

\* ------------------------------------------------------------ nom primitives

\* Err(nom::Err::Error(ParseError::Nom(..))): a nom primitive ran out of input.
NomError == [ok |-> FALSE, err |-> "Nom", val |-> 0, fail |-> "Error"]

\* nom::number::complete::be_u16
be_u16(input) ==
    IF Len(input) < 2 THEN NomError
    ELSE [ok |-> TRUE, val |-> (input[1] * 256) + input[2], rest |-> Drop(input, 2)]

\* nom::number::complete::be_u32.  A u32 is kept as its four big-endian bytes.
be_u32(input) ==
    IF Len(input) < 4 THEN NomError
    ELSE [ok |-> TRUE, val |-> Take(input, 4), rest |-> Drop(input, 4)]

\* nom::bytes::complete::take
take(n, input) ==
    IF Len(input) < n THEN NomError
    ELSE [ok |-> TRUE, val |-> Take(input, n), rest |-> Drop(input, n)]

Pow2(n) == IF n = 0 THEN 1 ELSE IF n = 1 THEN 2 ELSE IF n = 2 THEN 4
           ELSE IF n = 3 THEN 8 ELSE IF n = 4 THEN 16 ELSE IF n = 5 THEN 32
           ELSE IF n = 6 THEN 64 ELSE 128

\* Bit p counted from the least significant bit of each byte.
BitAt_Lsb0(input, p) == (input[(p \div 8) + 1] \div Pow2(p % 8)) % 2

\* Bit p (0 = the most significant bit of the first byte) of a byte string.
BitAt(input, p) == (input[(p \div 8) + 1] \div Pow2(7 - (p % 8))) % 2

\* nom::bits::complete::take(n) at bit offset p, for n = 1 and n = 4.
take_bits(input, p, n) ==
    IF p + n > 8 * Len(input) THEN NomError
    ELSE IF n = 1 THEN Ok(BitAt(input, p))
    ELSE Ok((8 * BitAt(input, p)) + (4 * BitAt(input, p + 1))
            + (2 * BitAt(input, p + 2)) + BitAt(input, p + 3))

\* cookie_factory::bytes::be_u16
cf_be_u16(v) == <<(v \div 256) % 256, v % 256>>

\* ------------------------------------------------------------------ header

\* A mapping that takes 0 to FormErr and every other value to NoError.
ResultCode_from_u4_Shifted(value) ==
    IF value = 0 THEN "FormErr" ELSE "NoError"

\* impl From<u4> for ResultCode
ResultCode_from_u4(value) ==
    IF value = 1 THEN "FormErr"
    ELSE IF value = 2 THEN "ServFail"
    ELSE IF value = 3 THEN "NxDomain"
    ELSE IF value = 4 THEN "NoTimp"
    ELSE IF value = 5 THEN "Refused"
    ELSE "NoError"

\* A mapping that writes FormErr as 0.
u4_from_ResultCode_NoFormErr(value) ==
    IF value = "ServFail" THEN 2
    ELSE IF value = "NxDomain" THEN 3
    ELSE 0

\* impl From<ResultCode> for u4
u4_from_ResultCode(value) ==
    IF value = "FormErr" THEN 1
    ELSE IF value = "ServFail" THEN 2
    ELSE IF value = "NxDomain" THEN 3
    ELSE IF value = "NoTimp" THEN 4
    ELSE IF value = "Refused" THEN 5
    ELSE 0

\* DnsHeaderFlags::parse: ten bit fields read MSB first; bits() then leaves the
\* input after the last byte it touched.
DnsHeaderFlags_parse(input) ==
    LET response == take_bits(input, 0, 1)
        opcode == take_bits(input, 1, 4)
        authoritative_answer == take_bits(input, 5, 1)
        truncated_message == take_bits(input, 6, 1)
        recursion_desired == take_bits(input, 7, 1)
        recursion_available == take_bits(input, 8, 1)
        z == take_bits(input, 9, 1)
        authed_data == take_bits(input, 10, 1)
        checking_disabled == take_bits(input, 11, 1)
        rescode == take_bits(input, 12, 4)
    IN IF ~(response.ok /\ opcode.ok /\ authoritative_answer.ok
            /\ truncated_message.ok /\ recursion_desired.ok
            /\ recursion_available.ok /\ z.ok /\ authed_data.ok
            /\ checking_disabled.ok /\ rescode.ok)
       THEN NomError
       ELSE [ok |-> TRUE,
             val |-> [response |-> response.val = 1,
                      opcode |-> opcode.val,
                      authoritative_answer |-> authoritative_answer.val = 1,
                      truncated_message |-> truncated_message.val = 1,
                      recursion_desired |-> recursion_desired.val = 1,
                      recursion_available |-> recursion_available.val = 1,
                      z |-> z.val = 1,
                      authed_data |-> authed_data.val = 1,
                      checking_disabled |-> checking_disabled.val = 1,
                      rescode |-> ResultCode_from_u4(rescode.val)],
             rest |-> Drop(input, 2)]

\* impl BitSerialize for bool
bool_write(v) == <<IF v THEN 1 ELSE 0>>

\* impl BitSerialize for u4: the last four bits of the value, MSB first.
u4_write(v) == <<(v \div 8) % 2, (v \div 4) % 2, (v \div 2) % 2, v % 2>>

\* BitVec<u8, Msb0>::as_raw_slice for a bit string of whole bytes.
as_raw_slice(bits) ==
    [k \in 1..(Len(bits) \div 8) |->
        (128 * bits[(8 * k) - 7]) + (64 * bits[(8 * k) - 6])
        + (32 * bits[(8 * k) - 5]) + (16 * bits[(8 * k) - 4])
        + (8 * bits[(8 * k) - 3]) + (4 * bits[(8 * k) - 2])
        + (2 * bits[(8 * k) - 1]) + bits[8 * k]]

\* DnsHeaderFlags::serialize
DnsHeaderFlags_serialize(f) ==
    as_raw_slice(bool_write(f.response) \o u4_write(f.opcode)
                 \o bool_write(f.authoritative_answer)
                 \o bool_write(f.truncated_message)
                 \o bool_write(f.recursion_desired)
                 \o bool_write(f.recursion_available)
                 \o bool_write(f.z)
                 \o bool_write(f.authed_data)
                 \o bool_write(f.checking_disabled)
                 \o u4_write(u4_from_ResultCode(f.rescode)))

\* DnsHeader::parse without its last field, resource_entries.
DnsHeader_parse_Short(input) ==
    LET id == be_u16(input) IN
    IF ~id.ok THEN NomError ELSE
    LET flags == DnsHeaderFlags_parse(id.rest) IN
    IF ~flags.ok THEN NomError ELSE
    LET questions == be_u16(flags.rest) IN
    IF ~questions.ok THEN NomError ELSE
    LET answers == be_u16(questions.rest) IN
    IF ~answers.ok THEN NomError ELSE
    LET authoritative_entries == be_u16(answers.rest) IN
    IF ~authoritative_entries.ok THEN NomError ELSE
    [ok |-> TRUE,
     val |-> [id |-> id.val, flags |-> flags.val, questions |-> questions.val,
              answers |-> answers.val,
              authoritative_entries |-> authoritative_entries.val,
              resource_entries |-> 0],
     rest |-> authoritative_entries.rest]

\* DnsHeader::parse
DnsHeader_parse(input) ==
    LET id == be_u16(input) IN
    IF ~id.ok THEN NomError ELSE
    LET flags == DnsHeaderFlags_parse(id.rest) IN
    IF ~flags.ok THEN NomError ELSE
    LET questions == be_u16(flags.rest) IN
    IF ~questions.ok THEN NomError ELSE
    LET answers == be_u16(questions.rest) IN
    IF ~answers.ok THEN NomError ELSE
    LET authoritative_entries == be_u16(answers.rest) IN
    IF ~authoritative_entries.ok THEN NomError ELSE
    LET resource_entries == be_u16(authoritative_entries.rest) IN
    IF ~resource_entries.ok THEN NomError ELSE
    [ok |-> TRUE,
     val |-> [id |-> id.val, flags |-> flags.val, questions |-> questions.val,
              answers |-> answers.val,
              authoritative_entries |-> authoritative_entries.val,
              resource_entries |-> resource_entries.val],
     rest |-> resource_entries.rest]

\* DnsHeader::serialize
DnsHeader_serialize(h) ==
    cf_be_u16(h.id) \o DnsHeaderFlags_serialize(h.flags)
    \o cf_be_u16(h.questions) \o cf_be_u16(h.answers)
    \o cf_be_u16(h.authoritative_entries) \o cf_be_u16(h.resource_entries)

\* -------------------------------------------------------------- query type

\* The conversion of the earlier QueryType, which has no SOA.
QueryType_from_u16_NoSoa(value) ==
    IF value = 1 THEN [tag |-> "A", x |-> 0]
    ELSE IF value = 2 THEN [tag |-> "Ns", x |-> 0]
    ELSE IF value = 5 THEN [tag |-> "Cname", x |-> 0]
    ELSE IF value = 15 THEN [tag |-> "Mx", x |-> 0]
    ELSE IF value = 28 THEN [tag |-> "Aaaa", x |-> 0]
    ELSE [tag |-> "Unknown", x |-> value]

\* impl From<u16> for QueryType
QueryType_from_u16(value) ==
    IF value = 1 THEN [tag |-> "A", x |-> 0]
    ELSE IF value = 2 THEN [tag |-> "Ns", x |-> 0]
    ELSE IF value = 5 THEN [tag |-> "Cname", x |-> 0]
    ELSE IF value = 6 THEN [tag |-> "Soa", x |-> 0]
    ELSE IF value = 15 THEN [tag |-> "Mx", x |-> 0]
    ELSE IF value = 28 THEN [tag |-> "Aaaa", x |-> 0]
    ELSE [tag |-> "Unknown", x |-> value]

\* impl From<QueryType> for u16
u16_from_QueryType(value) ==
    IF value.tag = "Unknown" THEN value.x
    ELSE IF value.tag = "A" THEN 1
    ELSE IF value.tag = "Ns" THEN 2
    ELSE IF value.tag = "Cname" THEN 5
    ELSE IF value.tag = "Soa" THEN 6
    ELSE IF value.tag = "Mx" THEN 15
    ELSE 28

\* QueryType::parse
QueryType_parse(input) ==
    LET qtype == be_u16(input) IN
    IF ~qtype.ok THEN NomError
    ELSE [ok |-> TRUE, val |-> QueryType_from_u16(qtype.val), rest |-> qtype.rest]

\* QueryType::serialize
QueryType_serialize(t) == cf_be_u16(u16_from_QueryType(t))

\* ---------------------------------------------------------------- question

\* A parser error handed on unchanged by `?`.
Propagate(r) == [ok |-> FALSE, err |-> r.err, val |-> r.val, fail |-> r.fail]

\* The test `qclass != 1` of DnsQuestion::parse.
BadClass(qclass) == qclass # 1

\* DnsQuestion::parse
DnsQuestion_parse(input, b) ==
    LET name == read_qname(b, input) IN
    IF ~name.ok THEN Propagate(name) ELSE
    LET qtype == QueryType_parse(name.rest) IN
    IF ~qtype.ok THEN NomError ELSE
    LET qclass == be_u16(qtype.rest) IN
    IF ~qclass.ok THEN NomError ELSE
    IF BadClass(qclass.val)
    THEN [ok |-> FALSE, err |-> "ParseClassError", val |-> qclass.val,
          fail |-> "Failure"]
    ELSE [ok |-> TRUE, val |-> [name |-> name.val, qtype |-> qtype.val],
          rest |-> qclass.rest]

\* DnsQuestion::serialize
DnsQuestion_serialize(q) ==
    Qname_serialize(q.name) \o QueryType_serialize(q.qtype) \o cf_be_u16(1)

\* ------------------------------------------------------------------ record

\* `let (i, x) = parser(i)?; ...`: the rest of the function runs on the parsed
\* value, an error is handed on unchanged.
Try(r, rest_of_fn(_)) == IF r.ok THEN rest_of_fn(r) ELSE Propagate(r)

\* The rdata arm of DnsRecord::parse for the parsed type.
DnsRecord_parse_rdata(input, b, domain, qtype, ttl, data_len) ==
    IF qtype.tag = "A"
    THEN Try(take(4, input), LAMBDA raw_addr :
         [ok |-> TRUE, rest |-> raw_addr.rest,
          val |-> [type |-> "A", domain |-> domain, addr |-> raw_addr.val,
                   ttl |-> ttl]])
    ELSE IF qtype.tag = "Aaaa"
    THEN Try(take(16, input), LAMBDA raw_addr :
         [ok |-> TRUE, rest |-> raw_addr.rest,
          val |-> [type |-> "Aaaa", domain |-> domain, addr |-> raw_addr.val,
                   ttl |-> ttl]])
    ELSE IF qtype.tag \in {"Ns", "Cname"}
    THEN Try(read_qname(b, input), LAMBDA host :
         [ok |-> TRUE, rest |-> host.rest,
          val |-> [type |-> qtype.tag, domain |-> domain, host |-> host.val,
                   ttl |-> ttl]])
    ELSE IF qtype.tag = "Soa"
    THEN Try(read_qname(b, input), LAMBDA primary_ns :
         Try(read_qname(b, primary_ns.rest), LAMBDA email :
         Try(be_u32(email.rest), LAMBDA serial :
         Try(be_u32(serial.rest), LAMBDA refresh :
         Try(be_u32(refresh.rest), LAMBDA retry :
         Try(be_u32(retry.rest), LAMBDA expire :
         Try(be_u32(expire.rest), LAMBDA min_ttl :
         [ok |-> TRUE, rest |-> min_ttl.rest,
          val |-> [type |-> "Soa", domain |-> domain, ttl |-> ttl,
                   primary_ns |-> primary_ns.val, email |-> email.val,
                   serial |-> serial.val, refresh |-> refresh.val,
                   retry |-> retry.val, expire |-> expire.val,
                   min_ttl |-> min_ttl.val]])))))))
    ELSE IF qtype.tag = "Mx"
    THEN Try(be_u16(input), LAMBDA priority :
         Try(read_qname(b, priority.rest), LAMBDA host :
         [ok |-> TRUE, rest |-> host.rest,
          val |-> [type |-> "Mx", domain |-> domain, priority |-> priority.val,
                   host |-> host.val, ttl |-> ttl]]))
    ELSE Try(take(data_len, input), LAMBDA skipped :
         [ok |-> TRUE, rest |-> skipped.rest,
          val |-> [type |-> "Unknown", domain |-> domain, qtype |-> qtype,
                   data_len |-> data_len, ttl |-> ttl]])

\* DnsRecord::parse
DnsRecord_parse(input, b) ==
    Try(read_qname(b, input), LAMBDA domain :
    Try(QueryType_parse(domain.rest), LAMBDA qtype :
    Try(be_u16(qtype.rest), LAMBDA class :
    Try(be_u32(class.rest), LAMBDA ttl :
    Try(be_u16(ttl.rest), LAMBDA data_len :
    DnsRecord_parse_rdata(data_len.rest, b, domain.val, qtype.val, ttl.val,
                          data_len.val))))))

\* cookie_factory::bytes::be_u32: a u32 is its four big-endian bytes.
cf_be_u32(v) == [k \in 1..4 |-> v[k] % 256]

\* `name | type | class = 1 | ttl` of DnsRecord::serialize.
RecordHead(r, qtype) ==
    Qname_serialize(r.domain) \o QueryType_serialize(qtype) \o cf_be_u16(1)
        \o cf_be_u32(r.ttl)

\* A serializer that writes name, type, class and ttl of every record.
DnsRecord_serialize_HeadOnly(r) == Ok(RecordHead(r, [tag |-> "Unknown", x |-> 99]))

\* DnsRecord::serialize.  The sizes are taken while the serializer is built,
\* so a panic of serialized_size leaves nothing written.
DnsRecord_serialize(r) ==
    IF r.type = "A"
    THEN Ok(RecordHead(r, [tag |-> "A"]) \o cf_be_u16(4) \o r.addr)
    ELSE IF r.type = "Aaaa"
    THEN Ok(RecordHead(r, [tag |-> "Aaaa"]) \o cf_be_u16(16) \o r.addr)
    ELSE IF r.type \in {"Ns", "Cname"}
    THEN LET size == Qname_serialized_size(r.host) IN
         IF ~size.ok THEN size
         ELSE Ok(RecordHead(r, [tag |-> r.type]) \o cf_be_u16(size.val)
                 \o Qname_serialize(r.host))
    ELSE IF r.type = "Soa"
    THEN LET size1 == Qname_serialized_size(r.primary_ns)
             size2 == Qname_serialized_size(r.email) IN
         IF ~size1.ok THEN size1 ELSE IF ~size2.ok THEN size2
         ELSE Ok(RecordHead(r, [tag |-> "Soa"])
                 \o cf_be_u16((size1.val + size2.val + (5 * 4)) % 65536)
                 \o Qname_serialize(r.primary_ns) \o Qname_serialize(r.email)
                 \o cf_be_u32(r.serial) \o cf_be_u32(r.refresh)
                 \o cf_be_u32(r.retry) \o cf_be_u32(r.expire)
                 \o cf_be_u32(r.min_ttl))
    ELSE IF r.type = "Mx"
    THEN LET size == Qname_serialized_size(r.host) IN
         IF ~size.ok THEN size
         ELSE Ok(RecordHead(r, [tag |-> "Mx"]) \o cf_be_u16((size.val + 2) % 65536)
                 \o cf_be_u16(r.priority) \o Qname_serialize(r.host))
    ELSE Ok(<<>>)

\* ----------------------------------------------------------------- message

\* nom::multi::count(|x| DnsQuestion::parse(x, buf), n)
RECURSIVE count_questions(_, _, _, _)
count_questions(n, input, b, acc) ==
    IF n = 0 THEN [ok |-> TRUE, val |-> acc, rest |-> input]
    ELSE Try(DnsQuestion_parse(input, b), LAMBDA q :
             count_questions(n - 1, q.rest, b, Append(acc, q.val)))

\* nom::multi::count(|x| DnsRecord::parse(x, buf), n)
RECURSIVE count_records(_, _, _, _)
count_records(n, input, b, acc) ==
    IF n = 0 THEN [ok |-> TRUE, val |-> acc, rest |-> input]
    ELSE Try(DnsRecord_parse(input, b), LAMBDA r :
             count_records(n - 1, r.rest, b, Append(acc, r.val)))

\* DnsMessage::parse reading the authorities with the additional count and
\* the additional records with the authority count.
DnsMessage_parse_Swapped(input, b) ==
    Try(DnsHeader_parse(input), LAMBDA header :
    Try(count_questions(header.val.questions, header.rest, b, <<>>),
        LAMBDA questions :
    Try(count_records(header.val.answers, questions.rest, b, <<>>),
        LAMBDA answers :
    Try(count_records(header.val.resource_entries, answers.rest, b, <<>>),
        LAMBDA authorities :
    Try(count_records(header.val.authoritative_entries, authorities.rest, b, <<>>),
        LAMBDA resources :
    [ok |-> TRUE, rest |-> resources.rest,
     val |-> [header |-> header.val, questions |-> questions.val,
              answers |-> answers.val, authorities |-> authorities.val,
              resources |-> resources.val]])))))

\* DnsMessage::parse
DnsMessage_parse(input, b) ==
    Try(DnsHeader_parse(input), LAMBDA header :
    Try(count_questions(header.val.questions, header.rest, b, <<>>),
        LAMBDA questions :
    Try(count_records(header.val.answers, questions.rest, b, <<>>),
        LAMBDA answers :
    Try(count_records(header.val.authoritative_entries, answers.rest, b, <<>>),
        LAMBDA authorities :
    Try(count_records(header.val.resource_entries, authorities.rest, b, <<>>),
        LAMBDA resources :
    [ok |-> TRUE, rest |-> resources.rest,
     val |-> [header |-> header.val, questions |-> questions.val,
              answers |-> answers.val, authorities |-> authorities.val,
              resources |-> resources.val]])))))

\* update_header writing 1 for the question count, as the query constructor
\* does.
DnsMessage_update_header_OneQuestion(m) ==
    [m EXCEPT !.header.questions = 1,
              !.header.answers = Len(m.answers) % 65536,
              !.header.authoritative_entries = Len(m.authorities) % 65536,
              !.header.resource_entries = Len(m.resources) % 65536]

\* update_header leaving the answer count as it was.
DnsMessage_update_header_NoAnswers(m) ==
    [m EXCEPT !.header.questions = Len(m.questions) % 65536,
              !.header.authoritative_entries = Len(m.authorities) % 65536,
              !.header.resource_entries = Len(m.resources) % 65536]

\* DnsMessage::update_header: each `len() as u16` keeps the low 16 bits.
DnsMessage_update_header(m) ==
    [m EXCEPT !.header.questions = Len(m.questions) % 65536,
              !.header.answers = Len(m.answers) % 65536,
              !.header.authoritative_entries = Len(m.authorities) % 65536,
              !.header.resource_entries = Len(m.resources) % 65536]

\* all(xs.iter().map(|x| x.serialize())) over records: the outputs one after
\* the other; a panic while a serializer is built ends the call.
RECURSIVE SerializeRecords(_)
SerializeRecords(rs) ==
    IF rs = <<>> THEN Ok(<<>>)
    ELSE Try(DnsRecord_serialize(Head(rs)), LAMBDA first :
         Try(SerializeRecords(Tail(rs)), LAMBDA others :
         Ok(first.val \o others.val)))

\* all(self.questions.iter().map(|x| x.serialize()))
RECURSIVE SerializeQuestions(_)
SerializeQuestions(qs) ==
    IF qs = <<>> THEN <<>>
    ELSE DnsQuestion_serialize(Head(qs)) \o SerializeQuestions(Tail(qs))

\* DnsMessage::serialize: header, questions, answers, authorities, resources.
DnsMessage_serialize(m) ==
    Try(SerializeRecords(m.answers \o m.authorities \o m.resources),
        LAMBDA records :
            Ok(DnsHeader_serialize(m.header) \o SerializeQuestions(m.questions)
               \o records.val))

\* A selector that finds no A record among the answers.
get_random_a_None(m) == {None}

\* DnsMessage::get_random_a: what choose may return over the A answers.
get_random_a(m) ==
    LET found == {k \in 1..Len(m.answers) : m.answers[k].type = "A"} IN
    IF found = {} THEN {None} ELSE {Ok(m.answers[k].addr) : k \in found}

\* DnsMessage::get_ns: the NS authorities with qname.ends_with(domain).
get_ns(m, name) ==
    {k \in 1..Len(m.authorities) :
        /\ m.authorities[k].type = "Ns"
        /\ ends_with(name, m.authorities[k].domain)}

\* A selector that finds no glue in any message.
get_resolved_ns_NoGlue(m, name) == {None}

\* DnsMessage::get_resolved_ns: what choose may return over the addresses of
\* the A resources whose domain is the host of a get_ns record.
get_resolved_ns(m, name) ==
    LET found == {<<k, j>> \in get_ns(m, name) \X (1..Len(m.resources)) :
                     /\ m.resources[j].type = "A"
                     /\ m.resources[j].domain = m.authorities[k].host} IN
    IF found = {} THEN {None} ELSE {Ok(m.resources[p[2]].addr) : p \in found}

\* DnsMessage::get_unresolved_ns: what choose may return over the hosts of the
\* get_ns records.
get_unresolved_ns(m, name) ==
    IF get_ns(m, name) = {} THEN {None}
    ELSE {Ok(m.authorities[k].host) : k \in get_ns(m, name)}

\* ------------------------------------------------------------------ inputs

\* Bytes of the raw datagrams: label lengths and offsets 0, 1, 2, the letters
\* A and a, and the pointer octet 0xC0.
RawBytes == {0, 1, 2, 65, 97, 192}

RECURSIVE SeqsUpTo(_, _)
SeqsUpTo(S, n) ==
    IF n = 0 THEN {<<>>}
    ELSE LET shorter == SeqsUpTo(S, n - 1) IN
         shorter \cup {Append(t, x) : t \in {u \in shorter : Len(u) = n - 1}, x \in S}

RawBufs == SeqsUpTo(RawBytes, MaxRaw)

\* A name laid out by its sender in k + 1 segments: segment j holds the plain
\* labels SegLabels(p, j) and ends with a pointer to segment j + 1; the last
\* one ends with the zero octet, or (cyc >= 0) with a pointer back to segment
\* cyc.  back = TRUE lays the segments out last to first, so that every
\* pointer points backwards.
PreChoices == {<<>>, <<<<65>>>>, <<<<97, 66>>, <<67>>>>}
MidChoices == {<<>>, <<<<88>>>>}
TailChoices == {<<>>, <<<<98>>>>, <<<<67, 111, 77>>, <<110>>>>}

ChainParams ==
    [pre : PreChoices, mid : MidChoices, tail : TailChoices, k : 0..MaxChain,
     back : BOOLEAN, cyc : {-1}]

CycleParams ==
    {p \in [pre : PreChoices, mid : MidChoices, tail : {<<>>, <<<<98>>>>},
            k : 0..MaxCycle, back : {FALSE}, cyc : 0..MaxCycle] : p.cyc <= p.k}

SegLabels(p, j) ==
    IF j = 0 THEN p.pre ELSE IF j = p.k THEN p.tail ELSE p.mid

EncLabels(labels) == Concat([n \in 1..Len(labels) |-> <<Len(labels[n])>> \o labels[n]])

SegLen(p, j) ==
    Len(EncLabels(SegLabels(p, j))) + (IF j < p.k \/ p.cyc >= 0 THEN 2 ELSE 1)

RECURSIVE SegSum(_, _, _)
SegSum(p, from, to) ==
    IF from > to THEN 0 ELSE SegLen(p, from) + SegSum(p, from + 1, to)

SegOff(p, j) == IF p.back THEN SegSum(p, j + 1, p.k) ELSE SegSum(p, 0, j - 1)

Ptr(offset) == <<192 + (offset \div 256), offset % 256>>

SegBytes(p, j) ==
    EncLabels(SegLabels(p, j))
    \o (IF j < p.k THEN Ptr(SegOff(p, j + 1))
        ELSE IF p.cyc >= 0 THEN Ptr(SegOff(p, p.cyc))
        ELSE <<0>>)

ChainBuf(p) ==
    Concat([n \in 1..(p.k + 1) |->
               SegBytes(p, IF p.back THEN (p.k + 1) - n ELSE n - 1)])

Lower(s) == [k \in 1..Len(s) |-> IF s[k] \in 65..90 THEN s[k] + 32 ELSE s[k]]

LowerAll(labels) == [n \in 1..Len(labels) |-> Lower(labels[n])]

\* The name the sender compressed into ChainBuf(p), in lower case.
ChainName(p) == LowerAll(Concat([n \in 1..(p.k + 1) |-> SegLabels(p, n - 1)]))

S62 == Rep(62, 97)

\* 62a.62a.62a.62a.aa: 254 bytes dotted, 256 bytes on the wire.
Long254 == S62 \o <<46>> \o S62 \o <<46>> \o S62 \o <<46>> \o S62 \o <<46, 97, 97>>

\* Dotted strings handed to try_from: "", a, A, b, a.b, A.b, x.a.b, a..b,
\* a., ., a 62-byte and a 63-byte label, a 254- and a 256-byte string.
Strs ==
    {<<>>, <<97>>, <<65>>, <<98>>, <<97, 46, 98>>, <<65, 46, 98>>,
     <<120, 46, 97, 46, 98>>, <<97, 46, 46, 98>>, <<97, 46>>, <<46>>,
     S62, Rep(63, 97), Long254, Rep(256, 97)}

\* Label vectors handed to try_from.
Vecs ==
    {<<>>, <<<<97>>>>, <<<<>>>>, <<<<65>>, <<98>>>>, <<<<97, 46, 98>>>>,
     <<Rep(63, 97)>>, <<S62, S62, S62, S62, <<97>>>>,
     <<S62, S62, S62, S62, <<97, 97>>>>}

\* Every Qname a constructor call on these inputs returns.
BuiltQnames ==
    {Qname_try_from_str(x).val : x \in {y \in Strs : Qname_try_from_str(y).ok}}
    \cup {Qname_try_from_vec(x).val : x \in {y \in Vecs : Qname_try_from_vec(y).ok}}

\* Big-endian bytes of a 16-bit value, as a sender writes them.
U16(v) == <<v \div 256, v % 256>>

HeaderBytes(id, f1, f2, qd, an, ns, ar) ==
    U16(id) \o <<f1, f2>> \o U16(qd) \o U16(an) \o U16(ns) \o U16(ar)

\* Headers: every first flag octet, every second flag octet, and a choice of
\* ids and counts.
Headers ==
    {HeaderBytes(5940, f1, f2, 1, 0, 0, 0) : f1 \in 0..255, f2 \in {0, 32, 128, 133, 255}}
    \cup {HeaderBytes(5940, f1, f2, 1, 6, 0, 0) : f1 \in {0, 1, 129, 255}, f2 \in 0..255}
    \cup {HeaderBytes(id, 1, 32, qd, an, 0, ar) :
             id \in {0, 255, 65535}, qd \in {0, 1, 256}, an \in {0, 262, 65535},
             ar \in {0, 1, 65535}}

\* Headers whose datagram is cut short or carries bytes after the header.
CutHeaders ==
    {HeaderBytes(5940, f1, 128, 1, 0, 2, an) \o [k \in 1..MaxExtra |-> k] :
        f1 \in {1, 129}, an \in {0, 3}}

Ttl == <<0, 0, 1, 43>>

\* A resource record as a sender writes it, rdlength being the rdata length.
RWire(name, type, rdata) ==
    name \o U16(type) \o U16(1) \o Ttl \o U16(Len(rdata)) \o rdata

\* An NS record cut after the first octet of a pointer host (the octet that
\* follows it in the datagram completes the pointer), an A, AAAA, NS, MX,
\* SOA and type-99 record with plain names, and an A record whose rdata is
\* five octets long.
RecordWires ==
    <<<<0>> \o U16(2) \o U16(1) \o Ttl \o U16(2) \o <<192>>,
      RWire(<<0>>, 1, <<10, 0, 0, 1>>),
      RWire(<<1, 97, 0>>, 28, [k \in 1..16 |-> k]),
      RWire(<<1, 97, 0>>, 2, <<2, 78, 115, 0>>),
      RWire(<<0>>, 15, <<0, 10, 1, 109, 0>>),
      RWire(<<0>>, 6, <<1, 112, 0, 1, 101, 0>> \o [k \in 1..20 |-> k]),
      RWire(<<0>>, 99, <<7, 7>>),
      RWire(<<0>>, 1, <<10, 0, 0, 1, 9>>)>>

\* The runs of up to MaxRecs consecutive records, taken cyclically.
RecordLists ==
    {[k \in 1..n |-> RecordWires[((s + k - 2) % Len(RecordWires)) + 1]] :
        s \in 1..Len(RecordWires), n \in 0..MaxRecs}

QWire(name, qtype, qclass) == name \o U16(qtype) \o U16(qclass)

\* Messages: an optional question and a run of records, all of them answers or
\* dealt one each to the answer, authority and additional sections.
Messages ==
    {HeaderBytes(id, 129, 128, Len(q),
                 IF flat THEN Len(rs) ELSE IF Len(rs) > 0 THEN 1 ELSE 0,
                 IF flat THEN 0 ELSE IF Len(rs) > 1 THEN 1 ELSE 0,
                 IF flat THEN 0 ELSE IF Len(rs) > 2 THEN Len(rs) - 2 ELSE 0)
     \o Concat(q) \o Concat(rs) :
        id \in {0, 5940}, q \in {<<>>, <<QWire(<<1, 65, 1, 98, 0>>, 255, 1)>>},
        rs \in RecordLists, flat \in BOOLEAN}

\* Datagrams of one question: plain and compressed names (the pointers lead to
\* offset 4, the first octet of qdcount, and to offset 12, the name itself),
\* the six known types, their neighbours and other unknown types, and classes
\* 0, 1, 2 and 256.
QuestionMessages ==
    {HeaderBytes(id, 1, 32, 1, 0, 0, 0) \o QWire(n, t, c) :
        id \in {0, 5940},
        n \in {<<0>>, <<1, 65, 0>>, <<192, 4>>, <<1, 97, 192, 4>>, <<192, 12>>},
        t \in {0, 1, 2, 3, 5, 6, 7, 15, 16, 28, 29, 99, 255, 256, 1280, 7168, 65535},
        c \in {0, 1, 2, 256}}

\* DnsRecord values of every variant: the domain is the root or a, the names
\* in the rdata are any Qname a constructor returned.
Records ==
    LET domains == {<<>>, <<<<97>>>>}
        u32 == <<0, 0, 1, 43>>
    IN
    {[type |-> "A", domain |-> d, addr |-> <<10, 0, 0, 1>>, ttl |-> u32] :
        d \in domains}
    \cup {[type |-> "Aaaa", domain |-> d, addr |-> [k \in 1..16 |-> k], ttl |-> u32] :
        d \in domains}
    \cup {[type |-> t, domain |-> d, host |-> h, ttl |-> u32] :
        t \in {"Ns", "Cname"}, d \in domains, h \in BuiltQnames}
    \cup {[type |-> "Mx", domain |-> d, priority |-> 10, host |-> h, ttl |-> u32] :
        d \in domains, h \in BuiltQnames}
    \cup {[type |-> "Soa", domain |-> <<>>, ttl |-> u32, primary_ns |-> p,
           email |-> e, serial |-> <<0, 0, 0, 1>>, refresh |-> <<0, 0, 0, 2>>,
           retry |-> <<0, 0, 0, 3>>, expire |-> <<0, 0, 0, 4>>,
           min_ttl |-> <<0, 0, 0, 5>>] : p \in BuiltQnames, e \in BuiltQnames}
    \cup {[type |-> "Unknown", domain |-> d, qtype |-> [tag |-> "Unknown", x |-> 99],
           data_len |-> 2, ttl |-> u32] : d \in domains}

\* A header as parsed from a reply, its counts not those of the vectors below.
StaleHeader == DnsHeader_parse(HeaderBytes(5940, 129, 128, 1, 6, 0, 0)).val

NsCom == [type |-> "Ns", domain |-> <<<<99, 111, 109>>>>,
          host |-> <<<<110, 115, 49>>>>, ttl |-> Ttl]
NsACom == [type |-> "Ns", domain |-> <<<<97>>, <<99, 111, 109>>>>,
           host |-> <<<<110, 115, 50>>>>, ttl |-> Ttl]
ANs1 == [type |-> "A", domain |-> <<<<110, 115, 49>>>>, addr |-> <<10, 0, 0, 1>>,
         ttl |-> Ttl]
ANs2 == [type |-> "A", domain |-> <<<<110, 115, 50>>>>, addr |-> <<10, 0, 0, 2>>,
         ttl |-> Ttl]
ACom == [type |-> "A", domain |-> <<<<99, 111, 109>>>>, addr |-> <<10, 0, 0, 9>>,
         ttl |-> Ttl]
QCom == [name |-> <<<<99, 111, 109>>>>, qtype |-> [tag |-> "A"]]
UnknownCom == [type |-> "Unknown", domain |-> <<<<99, 111, 109>>>>,
               qtype |-> [tag |-> "Unknown", x |-> 99], data_len |-> 2, ttl |-> Ttl]

\* DnsMessage values: up to MaxSection questions, answers, authorities (NS
\* records for com and a.com, an A record) and resources (glue for ns1 and
\* ns2), and messages whose answers hold a record of unknown type alone,
\* after and before an A record.
MessageValues ==
    {[header |-> StaleHeader, questions |-> q, answers |-> an, authorities |-> ns,
      resources |-> ar] :
        q \in SeqsUpTo({QCom}, MaxSection),
        an \in SeqsUpTo({ACom}, MaxSection),
        ns \in SeqsUpTo({NsCom, NsACom, ACom}, MaxSection),
        ar \in SeqsUpTo({ANs1, ANs2}, MaxSection)}
    \cup
    {[header |-> StaleHeader, questions |-> q, answers |-> an, authorities |-> ns,
      resources |-> ar] :
        q \in {<<>>, <<QCom>>},
        an \in {<<UnknownCom>>, <<ACom, UnknownCom>>, <<UnknownCom, ACom>>},
        ns \in {<<>>, <<NsCom>>},
        ar \in {<<>>, <<ANs1>>}}

\* The names asked for: com, a.com and org.
QueryNames == {<<<<99, 111, 109>>>>, <<<<97>>, <<99, 111, 109>>>>, <<<<111, 114, 103>>>>}

\* ----------------------------------------------------------------- actions

Init ==
    /\ pc = "idle"
    /\ buf = <<>>
    /\ sent = NoName
    /\ i = <<>>
    /\ res = None
    /\ qname = None
    /\ other = <<>>
    /\ ends = FALSE
    /\ out = <<>>
    /\ rec = None
    /\ msg = None
    /\ sel = None
    /\ request = None
    /\ stack = <<>>
    /\ queries = <<>>
    /\ reply = None
    /\ client = None

\* ByteMessageBuffer::new on a datagram of arbitrary bytes.
ReceiveRaw(b) ==
    /\ pc = "idle"
    /\ buf' = b
    /\ sent' = NoName
    /\ pc' = "received"
    /\ UNCHANGED <<i, res, qname, other, ends, out>>
    /\ UNCHANGED <<msgVars, resolverVars>>

\* ByteMessageBuffer::new on a datagram that holds a compressed name.
ReceiveName(p) ==
    /\ pc = "idle"
    /\ buf' = ChainBuf(p)
    /\ sent' = p
    /\ pc' = "received"
    /\ UNCHANGED <<i, res, qname, other, ends, out>>
    /\ UNCHANGED <<msgVars, resolverVars>>

\* buf.read_qname()(i) with the input i starting at offset c of the datagram.
ReadQname(c) ==
    /\ pc = "received"
    /\ i' = Drop(buf, c)
    /\ res' = read_qname(buf, i')
    /\ qname' = IF res'.ok THEN Ok(res'.val) ELSE None
    /\ pc' = "read"
    /\ UNCHANGED <<buf, sent, other, ends, out>>
    /\ UNCHANGED <<msgVars, resolverVars>>

\* Qname::try_from(&str)
TryFromStr(x) ==
    /\ pc = "idle"
    /\ qname' = Qname_try_from_str(x)
    /\ i' = x
    /\ pc' = "built"
    /\ UNCHANGED <<buf, sent, res, other, ends, out>>
    /\ UNCHANGED <<msgVars, resolverVars>>

\* Qname::try_from(Vec<String>)
TryFromVec(x) ==
    /\ pc = "idle"
    /\ qname' = Qname_try_from_vec(x)
    /\ i' = x
    /\ pc' = "built"
    /\ UNCHANGED <<buf, sent, res, other, ends, out>>
    /\ UNCHANGED <<msgVars, resolverVars>>

\* cf::gen_simple(qname.serialize(), Vec::new())
SerializeQname ==
    /\ pc \in {"built", "read"}
    /\ qname.ok
    /\ out' = Qname_serialize(qname.val)
    /\ pc' = "serialized"
    /\ UNCHANGED <<buf, sent, i, res, qname, other, ends>>
    /\ UNCHANGED <<msgVars, resolverVars>>

\* read_qname on the bytes just written, from their first byte.
ReparseQname ==
    /\ pc = "serialized"
    /\ buf' = out
    /\ i' = out
    /\ res' = read_qname(out, out)
    /\ pc' = "reparsed"
    /\ UNCHANGED <<sent, qname, other, ends, out>>
    /\ UNCHANGED <<msgVars, resolverVars>>

\* qname.ends_with(&b)
EndsWith(b) ==
    /\ pc = "built"
    /\ qname.ok
    /\ other' = b
    /\ ends' = ends_with(qname.val, b)
    /\ pc' = "compared"
    /\ UNCHANGED <<buf, sent, i, res, qname, out>>
    /\ UNCHANGED <<msgVars, resolverVars>>

NextQname ==
    \/ \E b \in RawBufs : ReceiveRaw(b)
    \/ \E p \in ChainParams \cup CycleParams : ReceiveName(p)
    \/ \E c \in 0..Len(buf) : ReadQname(c)
    \/ \E x \in Strs : TryFromStr(x)
    \/ \E x \in Vecs : TryFromVec(x)
    \/ SerializeQname
    \/ ReparseQname
    \/ \E b \in BuiltQnames : EndsWith(b)

SpecQname == Init /\ [][NextQname]_vars

\* buffer.peek_u8(pos)
PeekU8(pos) ==
    /\ pc = "hdr_received"
    /\ other' = <<pos>>
    /\ res' = peek_u8(buf, pos)
    /\ pc' = "peeked_u8"
    /\ UNCHANGED <<buf, sent, i, qname, ends, out>>
    /\ UNCHANGED <<msgVars, resolverVars>>

\* buffer.peek_range(start, len)
PeekRange(start, len) ==
    /\ pc = "hdr_received"
    /\ other' = <<start, len>>
    /\ res' = peek_range(buf, start, len)
    /\ pc' = "peeked_range"
    /\ UNCHANGED <<buf, sent, i, qname, ends, out>>
    /\ UNCHANGED <<msgVars, resolverVars>>

\* ByteMessageBuffer::new on a datagram that is the first n bytes of h.
ReceiveHeader(h, n) ==
    /\ pc = "idle"
    /\ buf' = Take(h, n)
    /\ sent' = NoName
    /\ pc' = "hdr_received"
    /\ UNCHANGED <<i, res, qname, other, ends, out>>
    /\ UNCHANGED <<msgVars, resolverVars>>

\* DnsHeader::parse(&data)
ParseHeader ==
    /\ pc = "hdr_received"
    /\ i' = buf
    /\ res' = DnsHeader_parse(buf)
    /\ pc' = "hdr_parsed"
    /\ UNCHANGED <<buf, sent, qname, other, ends, out>>
    /\ UNCHANGED <<msgVars, resolverVars>>

\* cf::gen_simple(header.serialize(), Vec::new())
SerializeHeader ==
    /\ pc = "hdr_parsed"
    /\ res.ok
    /\ out' = DnsHeader_serialize(res.val)
    /\ pc' = "hdr_serialized"
    /\ UNCHANGED <<buf, sent, i, res, qname, other, ends>>
    /\ UNCHANGED <<msgVars, resolverVars>>

NextHeader ==
    \/ \E h \in Headers : ReceiveHeader(h, Len(h))
    \/ \E h \in CutHeaders : \E n \in 0..Len(h) : ReceiveHeader(h, n)
    \/ ParseHeader
    \/ SerializeHeader

SpecHeader == Init /\ [][NextHeader]_vars

NextBuffer ==
    \/ \E h \in CutHeaders : \E n \in 0..Len(h) : ReceiveHeader(h, n)
    \/ \E pos \in 0..(Len(buf) + 1) : PeekU8(pos)
    \/ \E start \in 0..(Len(buf) + 1) : \E len \in 0..(Len(buf) + 1) :
           PeekRange(start, len)

SpecBuffer == Init /\ [][NextBuffer]_vars

\* ByteMessageBuffer::new on a datagram that is the first n bytes of m.
ReceiveMessage(m, n) ==
    /\ pc = "idle"
    /\ buf' = Take(m, n)
    /\ sent' = Whole(m)
    /\ pc' = "msg_received"
    /\ UNCHANGED <<i, res, qname, other, ends, out>>
    /\ UNCHANGED <<msgVars, resolverVars>>

\* DnsMessage::parse(&data, &buffer)
ParseMessage ==
    /\ pc = "msg_received"
    /\ i' = buf
    /\ res' = DnsMessage_parse(buf, buf)
    /\ pc' = "msg_parsed"
    /\ UNCHANGED <<buf, sent, qname, other, ends, out>>
    /\ UNCHANGED <<msgVars, resolverVars>>

NextMessage ==
    \/ \E m \in Messages : \E n \in 0..Len(m) : ReceiveMessage(m, n)
    \/ ParseMessage

SpecMessage == Init /\ [][NextMessage]_vars

\* DnsQuestion::parse(x, buf) on the input that follows the header.
ParseQuestion ==
    /\ pc = "msg_received"
    /\ Len(buf) >= DNS_HEADER_LEN
    /\ i' = Drop(buf, DNS_HEADER_LEN)
    /\ res' = DnsQuestion_parse(i', buf)
    /\ pc' = "q_parsed"
    /\ UNCHANGED <<buf, sent, qname, other, ends, out>>
    /\ UNCHANGED <<msgVars, resolverVars>>

\* cf::gen_simple(question.serialize(), Vec::new())
SerializeQuestion ==
    /\ pc = "q_parsed"
    /\ res.ok
    /\ out' = DnsQuestion_serialize(res.val)
    /\ pc' = "q_serialized"
    /\ UNCHANGED <<buf, sent, i, res, qname, other, ends>>
    /\ UNCHANGED <<msgVars, resolverVars>>

NextQuestion ==
    \/ \E m \in QuestionMessages : ReceiveMessage(m, Len(m))
    \/ ParseMessage
    \/ ParseQuestion
    \/ SerializeQuestion

SpecQuestion == Init /\ [][NextQuestion]_vars

\* A DnsRecord value is built.
BuildRecord(r) ==
    /\ pc = "idle"
    /\ rec' = r
    /\ pc' = "rec_built"
    /\ UNCHANGED <<buf, sent, i, res, qname, other, ends, out, msg, sel>>
    /\ UNCHANGED resolverVars

\* cf::gen_simple(record.serialize(), Vec::new())
SerializeRecord ==
    /\ pc = "rec_built"
    /\ res' = DnsRecord_serialize(rec)
    /\ out' = IF res'.ok THEN res'.val ELSE <<>>
    /\ pc' = IF res'.ok THEN "rec_serialized" ELSE "rec_panicked"
    /\ UNCHANGED <<buf, sent, i, qname, other, ends, rec, msg, sel>>
    /\ UNCHANGED resolverVars

\* DnsRecord::parse on the bytes written, as the whole buffer.
ReparseRecord ==
    /\ pc = "rec_serialized"
    /\ buf' = out
    /\ i' = out
    /\ res' = DnsRecord_parse(out, out)
    /\ pc' = "rec_reparsed"
    /\ UNCHANGED <<sent, qname, other, ends, out, rec, msg, sel>>
    /\ UNCHANGED resolverVars

NextRecord ==
    \/ \E r \in Records : BuildRecord(r)
    \/ SerializeRecord
    \/ ReparseRecord

SpecRecord == Init /\ [][NextRecord]_vars

\* A DnsMessage value is at hand: parsed from a reply or put together.
BuildMessage(m) ==
    /\ pc = "idle"
    /\ msg' = m
    /\ pc' = "msg_built"
    /\ UNCHANGED <<buf, sent, i, res, qname, other, ends, out, rec, sel>>
    /\ UNCHANGED resolverVars

\* message.update_header()
UpdateHeader ==
    /\ pc = "msg_built"
    /\ msg' = DnsMessage_update_header(msg)
    /\ res' = Ok(msg)
    /\ pc' = "hdr_updated"
    /\ UNCHANGED <<buf, sent, i, qname, other, ends, out, rec, sel>>
    /\ UNCHANGED resolverVars

\* message.get_random_a()
GetRandomA ==
    /\ pc = "msg_built"
    /\ \E r \in get_random_a(msg) : sel' = r
    /\ pc' = "random_a"
    /\ UNCHANGED <<buf, sent, i, res, qname, other, ends, out, rec, msg>>
    /\ UNCHANGED resolverVars

\* message.get_resolved_ns(&q)
GetResolvedNs(q) ==
    /\ pc = "msg_built"
    /\ \E r \in get_resolved_ns(msg, q) : sel' = r
    /\ qname' = Ok(q)
    /\ pc' = "resolved_ns"
    /\ UNCHANGED <<buf, sent, i, res, other, ends, out, rec, msg>>
    /\ UNCHANGED resolverVars

\* message.get_unresolved_ns(&q)
GetUnresolvedNs(q) ==
    /\ pc = "msg_built"
    /\ \E r \in get_unresolved_ns(msg, q) : sel' = r
    /\ qname' = Ok(q)
    /\ pc' = "unresolved_ns"
    /\ UNCHANGED <<buf, sent, i, res, other, ends, out, rec, msg>>
    /\ UNCHANGED resolverVars

\* cf::gen_simple(message.serialize(), Vec::new()) after update_header
SerializeMessage ==
    /\ pc = "hdr_updated"
    /\ res' = DnsMessage_serialize(msg)
    /\ out' = IF res'.ok THEN res'.val ELSE <<>>
    /\ pc' = "msg_serialized"
    /\ UNCHANGED <<buf, sent, i, qname, other, ends, rec, msg, sel>>
    /\ UNCHANGED resolverVars

NextAssembler ==
    \/ \E m \in MessageValues : BuildMessage(m)
    \/ UpdateHeader
    \/ SerializeMessage
    \/ GetRandomA
    \/ \E q \in QueryNames : GetResolvedNs(q)
    \/ \E q \in QueryNames : GetUnresolvedNs(q)

SpecAssembler == Init /\ [][NextAssembler]_vars

\* ---------------------------------------------------------------- resolver
\* The resolver loop and the assembly of the client's reply are not in the
\* source tree; they follow sections 4.7 and 4.8 of the specification and call
\* the selectors of DnsMessage above.

\* Two of the root server addresses.
RootServers == {<<198, 41, 0, 4>>, <<199, 9, 14, 201>>}

Ns1 == <<<<110, 115, 49>>>>

\* An upstream reply with the given rescode and sections.
Reply(rescode, an, ns, ar) ==
    DnsMessage_update_header(
        [header |-> [StaleHeader EXCEPT !.flags.rescode = rescode],
         questions |-> <<>>, answers |-> an, authorities |-> ns, resources |-> ar])

\* A datagram of 246 bytes: three A answers whose names have three labels of
\* twenty bytes 0xC0 each.
LossyReplyBytes ==
    LET name == EncLabels(<<Rep(20, 192), Rep(20, 192), Rep(20, 192)>>) \o <<0>>
        answer == RWire(name, 1, <<10, 0, 0, 9>>) IN
    HeaderBytes(5940, 129, 128, 0, 3, 0, 0) \o answer \o answer \o answer

\* Step 1: the query message {rd = true, one question (qname, qtype)}.
QueryMessage(name, qtype) ==
    DnsMessage_update_header(
        [header |-> [StaleHeader EXCEPT !.flags.response = FALSE,
                                        !.flags.recursion_available = FALSE],
         questions |-> <<[name |-> name, qtype |-> qtype]>>,
         answers |-> <<>>, authorities |-> <<>>, resources |-> <<>>])

\* What the upstream servers may answer: an A answer, NXDOMAIN, a CNAME-only
\* answer, an empty NoError and a ServFail reply, a referral for com with and
\* without glue, a referral for a.com with glue, a glue-less referral of the
\* root zone to ns1, and the parsed datagram LossyReplyBytes.
UpstreamReplies ==
    {DnsMessage_parse(LossyReplyBytes, LossyReplyBytes).val,
     Reply("NoError", <<ACom>>, <<>>, <<>>),
     Reply("NxDomain", <<>>, <<>>, <<>>),
     Reply("NoError", <<[type |-> "Cname", domain |-> Ns1, host |-> Ns1, ttl |-> Ttl]>>,
           <<>>, <<>>),
     Reply("NoError", <<>>, <<>>, <<>>),
     Reply("ServFail", <<>>, <<>>, <<>>),
     Reply("NoError", <<>>, <<NsCom>>, <<ANs1>>),
     Reply("NoError", <<>>, <<NsCom>>, <<>>),
     Reply("NoError", <<>>, <<NsACom>>, <<ANs2>>),
     Reply("NoError", <<>>, <<[type |-> "Ns", domain |-> <<>>, host |-> Ns1, ttl |-> Ttl]>>,
           <<>>)}

\* Client requests: with no question and with the question (com, A).
Requests ==
    {[id |-> id, questions |-> q] : id \in {7, 5940}, q \in {<<>>, <<QCom>>}}

\* Section 4.7 step 2: the reply ends the resolution.
IsTerminal(m) ==
    \/ m.header.flags.rescode = "NoError" /\ m.answers # <<>>
    \/ m.header.flags.rescode = "NxDomain"

\* The innermost resolution in progress.
Top == stack[Len(stack)]

\* The stack with the innermost resolution's field f set to v.
SetTop(f, v) == [stack EXCEPT ![Len(stack)] = [@ EXCEPT ![f] = v]]

\* A new resolution of (name, qtype), starting at the root server ip.
Frame(name, qtype, ip) ==
    [qname |-> name, qtype |-> qtype, ns_ip |-> ip, referral |-> None]

\* The log of upstream queries keeps the last MaxLog entries.
Logged(log, q) ==
    IF Len(log) < MaxLog THEN Append(log, q) ELSE Append(Tail(log), q)

\* Section 4.7, client response assembly: the fresh message.
FreshReply(req) ==
    [header |-> [StaleHeader EXCEPT
                    !.id = req.id,
                    !.flags = [response |-> TRUE, opcode |-> 0,
                               authoritative_answer |-> FALSE,
                               truncated_message |-> FALSE,
                               recursion_desired |-> TRUE,
                               recursion_available |-> TRUE, z |-> FALSE,
                               authed_data |-> FALSE, checking_disabled |-> FALSE,
                               rescode |-> "NoError"],
                    !.questions = 0, !.answers = 0,
                    !.authoritative_entries = 0, !.resource_entries = 0],
     questions |-> <<>>, answers |-> <<>>, authorities |-> <<>>,
     resources |-> <<>>]

parseVars == <<buf, sent, i, res, qname, other, ends, msgVars>>
codecVars == <<parseVars, out>>

\* The datagram sent to the client: the serialized message, nothing when the
\* serialization panics.
Emitted(m) ==
    IF DnsMessage_serialize(m).ok THEN DnsMessage_serialize(m).val ELSE <<>>

\* A datagram of a client was received and parsed.
ReceiveRequest(req) ==
    /\ pc = "idle"
    /\ request' = req
    /\ client' = FreshReply(req)
    /\ pc' = "request"
    /\ UNCHANGED <<codecVars, stack, queries, reply>>

\* The request has no question: FormErr, with no upstream contact.
ReplyFormErr ==
    /\ pc = "request"
    /\ request.questions = <<>>
    /\ client' = DnsMessage_update_header(
                     [client EXCEPT !.header.flags.rescode = "FormErr"])
    /\ out' = Emitted(client')
    /\ pc' = "replied"
    /\ UNCHANGED <<parseVars, request, stack, queries, reply>>

\* The resolver is invoked for the request's first question, starting at a
\* root server picked at random.
StartResolve(ip) ==
    /\ pc = "request"
    /\ request.questions # <<>>
    /\ stack' = <<Frame(request.questions[1].name, request.questions[1].qtype, ip)>>
    /\ pc' = "send"
    /\ UNCHANGED <<codecVars, request, queries, reply, client>>

\* Step 1: the query (qname, qtype) goes to (ns_ip, 53).
SendQuery ==
    /\ pc = "send"
    /\ queries' = Logged(queries, [ip |-> Top.ns_ip, qname |-> Top.qname,
                                   qtype |-> Top.qtype])
    /\ pc' = "await"
    /\ UNCHANGED <<codecVars, request, stack, reply, client>>

\* Step 1: the reply has arrived and parsed.  The servers send a glue-less
\* referral only while the recursion is less than MaxDepth deep.
ReceiveReply(m) ==
    /\ pc = "await"
    /\ Len(stack) = MaxDepth =>
           \/ IsTerminal(m)
           \/ get_resolved_ns(m, Top.qname) # {None}
           \/ get_unresolved_ns(m, Top.qname) = {None}
    /\ reply' = m
    /\ pc' = "reply"
    /\ UNCHANGED <<codecVars, request, stack, queries, client>>

\* Section 4.8: a transport or parse failure ends the task with ServFail.
UpstreamFails ==
    /\ pc = "await"
    /\ client' = DnsMessage_update_header(
                     [client EXCEPT !.header.flags.rescode = "ServFail"])
    /\ stack' = <<>>
    /\ out' = Emitted(client')
    /\ pc' = "replied"
    /\ UNCHANGED <<parseVars, request, queries, reply>>

\* Step 2: a terminal reply is returned.
ReturnTerminal ==
    /\ pc = "reply"
    /\ IsTerminal(reply)
    /\ pc' = "return"
    /\ UNCHANGED <<codecVars, request, stack, queries, reply, client>>

\* Step 3: referral with glue.
FollowGlue ==
    /\ pc = "reply"
    /\ ~IsTerminal(reply)
    /\ \E a \in get_resolved_ns(reply, Top.qname) :
           /\ a.ok
           /\ stack' = SetTop("ns_ip", a.val)
    /\ pc' = "send"
    /\ UNCHANGED <<codecVars, request, queries, reply, client>>

\* Step 4: referral without glue; the host is resolved with qtype A from a
\* root server, the referral is kept until that resolution returns.
ResolveNsHost(ip) ==
    /\ pc = "reply"
    /\ ~IsTerminal(reply)
    /\ get_resolved_ns(reply, Top.qname) = {None}
    /\ Len(stack) < MaxDepth
    /\ \E h \in get_unresolved_ns(reply, Top.qname) :
           /\ h.ok
           /\ stack' = Append(SetTop("referral", reply), Frame(h.val, [tag |-> "A"], ip))
    /\ pc' = "send"
    /\ UNCHANGED <<codecVars, request, queries, reply, client>>

\* Step 5: no NS at all, the reply is returned as it is.
ReturnAsIs ==
    /\ pc = "reply"
    /\ ~IsTerminal(reply)
    /\ get_resolved_ns(reply, Top.qname) = {None}
    /\ get_unresolved_ns(reply, Top.qname) = {None}
    /\ pc' = "return"
    /\ UNCHANGED <<codecVars, request, stack, queries, reply, client>>

\* Step 4: the resolution of the NS host returned an A record; the referring
\* resolution queries that address next.
ResumeWithAddress ==
    /\ pc = "return"
    /\ Len(stack) > 1
    /\ \E a \in get_random_a(reply) :
           /\ a.ok
           /\ stack' = [SubSeq(stack, 1, Len(stack) - 1) EXCEPT
                           ![Len(stack) - 1] = [@ EXCEPT !.ns_ip = a.val,
                                                         !.referral = None]]
    /\ pc' = "send"
    /\ UNCHANGED <<codecVars, request, queries, reply, client>>

\* Step 4: the resolution of the NS host returned no A record; the referring
\* resolution returns its referral.
ResumeWithout ==
    /\ pc = "return"
    /\ Len(stack) > 1
    /\ get_random_a(reply) = {None}
    /\ reply' = stack[Len(stack) - 1].referral
    /\ stack' = [SubSeq(stack, 1, Len(stack) - 1) EXCEPT
                    ![Len(stack) - 1] = [@ EXCEPT !.referral = None]]
    /\ pc' = "return"
    /\ UNCHANGED <<codecVars, request, queries, client>>

\* Client response assembly: the rescode and the records of the result are
\* copied, update_header is called and the reply emitted.
ReplyResult ==
    /\ pc = "return"
    /\ Len(stack) = 1
    /\ client' = DnsMessage_update_header(
                     [client EXCEPT !.header.flags.rescode = reply.header.flags.rescode,
                                    !.answers = reply.answers,
                                    !.authorities = reply.authorities,
                                    !.resources = reply.resources])
    /\ stack' = <<>>
    /\ out' = Emitted(client')
    /\ pc' = "replied"
    /\ UNCHANGED <<parseVars, request, queries, reply>>

NextResolver ==
    \/ \E req \in Requests : ReceiveRequest(req)
    \/ ReplyFormErr
    \/ \E ip \in RootServers : StartResolve(ip)
    \/ SendQuery
    \/ \E m \in UpstreamReplies : ReceiveReply(m)
    \/ UpstreamFails
    \/ ReturnTerminal
    \/ FollowGlue
    \/ \E ip \in RootServers : ResolveNsHost(ip)
    \/ ReturnAsIs
    \/ ResumeWithAddress
    \/ ResumeWithout
    \/ ReplyResult

SpecResolver == Init /\ [][NextResolver]_vars

\* Every step the task can take is taken in the end: the servers answer and
\* the task is scheduled.
SpecResolverFair == SpecResolver /\ WF_vars(NextResolver)

Next ==
    \/ NextQname \/ NextHeader \/ NextMessage \/ NextQuestion \/ NextRecord
    \/ NextAssembler \/ NextResolver \/ NextBuffer

Spec == Init /\ [][Next]_vars

\* ------------------------------------------------------------------ claims

\* The offset in buf at which the last parser call started.
Start == Len(buf) - Len(i)

\* The plain labels at a cursor, read without following any pointer: the
\* bytes they occupy and the octet kind that ends them.
RECURSIVE PlainScan(_, _, _)
PlainScan(b, pos, acc) ==
    IF pos >= Len(b) THEN [kind |-> "none", len |-> acc]
    ELSE IF b[pos + 1] >= 192 THEN [kind |-> "ptr", len |-> acc]
    ELSE IF b[pos + 1] = 0 THEN [kind |-> "zero", len |-> acc]
    ELSE PlainScan(b, pos + 1 + b[pos + 1], acc + 1 + b[pos + 1])

\* C1: whenever read_qname succeeds it consumes the plain labels at the cursor
\* plus the 2-byte pointer that ends them, or plus the zero octet when no
\* pointer ends them: sum(1 + Li) + 2, respectively sum(1 + Li) + 1 bytes.
C1_Consumed ==
    (pc = "read" /\ res.ok) =>
        LET sc == PlainScan(buf, Start, 0) IN
        Len(i) - Len(res.rest) = sc.len + (IF sc.kind = "ptr" THEN 2 ELSE 1)

\* The name at pos runs into a pointer it has already followed.
RECURSIVE ReachesCycle(_, _, _)
ReachesCycle(b, pos, seen) ==
    IF pos >= Len(b) THEN FALSE
    ELSE IF b[pos + 1] >= 192
    THEN IF pos + 1 >= Len(b) THEN FALSE
         ELSE IF pos \in seen THEN TRUE
         ELSE ReachesCycle(b, ((b[pos + 1] - 192) * 256) + b[pos + 2],
                           seen \cup {pos})
    ELSE IF b[pos + 1] = 0 THEN FALSE
    ELSE ReachesCycle(b, pos + 1 + b[pos + 1], seen)

\* C2: a name that reaches a cyclic pointer chain is answered with
\* JumpLimitExceeded, and no read_qname call follows more than 5 pointers.
C2_JumpLimit ==
    pc = "read" =>
        /\ res.jumps <= MAX_JUMPS
        /\ ReachesCycle(buf, Start, {}) =>
               (~res.ok /\ res.err = "JumpLimitExceeded")

\* C3: every Qname a constructor accepted is read back unchanged from the
\* bytes Qname::serialize wrote for it.
C3_RoundTrip ==
    pc = "reparsed" => (res.ok /\ res.val = qname.val)

\* C4: a name compressed with 1..5 pointers is read back whole, the labels
\* before each pointer followed by the labels behind it, in lower case.
C4_Compressed ==
    (pc = "read" /\ sent.k >= 1 /\ sent.k <= MAX_JUMPS /\ sent.cyc = -1
     /\ Start = SegOff(sent, 0)) =>
        (res.ok /\ res.val = ChainName(sent))

\* C4 witness: a name behind a chain of five backward pointers, with labels in
\* every segment and upper-case letters on the wire, has been read.
C4_Witness ==
    /\ pc = "read"
    /\ sent.k = MAX_JUMPS
    /\ sent.cyc = -1
    /\ sent.back
    /\ Start = SegOff(sent, 0)
    /\ sent.pre = <<<<97, 66>>, <<67>>>>
    /\ sent.mid # <<>>
    /\ res.ok
    /\ res.val = <<<<97, 98>>, <<99>>, <<120>>, <<120>>, <<120>>, <<120>>,
                   <<99, 111, 109>>, <<110>>>>

\* The low four bits of the second flag octet.
RescodeBits(b) == b[4] % 16

\* C5 as stated: serializing the parsed header gives back the 12 bytes parsed.
C5_RoundTrip ==
    pc = "hdr_serialized" => out = Take(buf, DNS_HEADER_LEN)

\* C5 amended: the 12 bytes come back exactly when the rescode bits are 0..5;
\* for 6..15 they come back with the rescode bits cleared and every other bit,
\* the opcode included, unchanged.
C5_RoundTripLenient ==
    pc = "hdr_serialized" =>
        out = IF RescodeBits(buf) <= 5 THEN Take(buf, DNS_HEADER_LEN)
              ELSE [Take(buf, DNS_HEADER_LEN) EXCEPT ![4] = @ - RescodeBits(buf)]

\* C5 witness: a header with opcode 15 and rescode bits 15 was parsed and
\* written back with the rescode bits cleared.
C5_Witness ==
    /\ pc = "hdr_serialized"
    /\ buf[3] = 255
    /\ buf[4] = 255
    /\ out[3] = 255
    /\ out[4] = 240

\* C6: DnsHeader::parse fails on fewer than 12 bytes and on n >= 12 bytes
\* succeeds and leaves the last n - 12 of them.
C6_HeaderLength ==
    pc = "hdr_parsed" =>
        IF Len(buf) < DNS_HEADER_LEN THEN ~res.ok
        ELSE res.ok /\ res.rest = Drop(buf, DNS_HEADER_LEN)

\* C6 witness: a 14-byte input was parsed and its last two bytes are left.
C6_Witness ==
    /\ pc = "hdr_parsed"
    /\ Len(buf) = DNS_HEADER_LEN + 2
    /\ res.ok
    /\ res.rest = <<1, 2>>

\* b's labels are the last labels of a.
IsSuffix(b, a) ==
    /\ Len(b) <= Len(a)
    /\ \A k \in 1..Len(b) : b[k] = a[(Len(a) - Len(b)) + k]

\* C8: a.ends_with(b) is true exactly when b's lower-cased labels are a suffix
\* of a's lower-cased labels.
C8_EndsWith ==
    pc = "compared" => (ends <=> IsSuffix(LowerAll(other), LowerAll(qname.val)))

\* The labels are non-empty and shorter than 63 bytes, and with their length
\* octets and the closing zero they take at most 255 bytes.
ValidLabels(q) ==
    /\ \A k \in 1..Len(q) : Len(q[k]) > 0 /\ Len(q[k]) < MAX_LABEL_LEN
    /\ SumLens(q) + 1 <= MAX_QNAME_LEN

\* C9: every Qname a constructor or read_qname returned has non-empty labels
\* shorter than 63 bytes and at most 255 bytes on the wire, and a constructor
\* that refuses its input does so with a label-length or total-length error.
C9_Valid ==
    /\ qname.ok => ValidLabels(qname.val)
    /\ (pc \in {"read", "reparsed"} /\ res.ok) => ValidLabels(res.val)
    /\ (pc = "built" /\ ~qname.ok) => qname.err \in {"BadLabelLen", "BadTotalLen"}

\* DnsMessage::parse accepts m and consumes all of its bytes.
WellFormed(m) ==
    LET r == DnsMessage_parse(m, m) IN r.ok /\ r.rest = <<>>

\* C7: parsing a proper prefix of a well-formed message returns an error: it
\* neither succeeds nor panics on an index outside the prefix.
C7_PrefixFails ==
    (pc = "msg_parsed" /\ Len(buf) < Len(sent.full) /\ WellFormed(sent.full)) =>
        (~res.ok /\ res.fail # "panic")

\* C7 witness: a well-formed message with a question and two records, the
\* first an NS record whose host is a pointer, was cut inside a name and the
\* parse stopped with a bounds error.
C7_Witness ==
    /\ pc = "msg_parsed"
    /\ WellFormed(sent.full)
    /\ Len(buf) < Len(sent.full)
    /\ DnsMessage_parse(sent.full, sent.full).val.header.questions = 1
    /\ Len(DnsMessage_parse(sent.full, sent.full).val.answers) = 2
    /\ DnsMessage_parse(sent.full, sent.full).val.answers[1].type = "Ns"
    /\ sent.full[33] = 192
    /\ ~res.ok
    /\ res.err = "BoundError"

\* The bytes the question's name occupies on the wire, by the wire format.
NameLen(b, pos) ==
    LET sc == PlainScan(b, pos, 0) IN sc.len + (IF sc.kind = "ptr" THEN 2 ELSE 1)

\* The 16-bit field at offset pos.
Field16(b, pos) == (b[pos + 1] * 256) + b[pos + 2]

\* C10: a question whose qclass field is not 1 is refused with the bad-class
\* failure carrying that value, by DnsQuestion::parse and so by the message
\* parse; one whose qclass field is 1 parses to its name and qtype; and
\* DnsQuestion::serialize ends with qclass 1.
C10_Qclass ==
    LET at == DNS_HEADER_LEN + NameLen(buf, DNS_HEADER_LEN)
        name == read_qname(buf, Drop(buf, DNS_HEADER_LEN))
    IN
    /\ (pc \in {"q_parsed", "msg_parsed"} /\ name.ok /\ Field16(buf, at + 2) # 1) =>
           /\ ~res.ok
           /\ res.err = "ParseClassError"
           /\ res.val = Field16(buf, at + 2)
           /\ res.fail = "Failure"
    /\ (pc = "q_parsed" /\ name.ok /\ Field16(buf, at + 2) = 1) =>
           /\ res.ok
           /\ res.val = [name |-> name.val,
                         qtype |-> QueryType_from_u16(Field16(buf, at))]
    /\ pc = "q_serialized" =>
           SubSeq(out, Len(out) - 1, Len(out)) = <<0, 1>>

\* The offset of the rdlength field in the bytes written for rec.
RdlengthAt == Len(Qname_serialize(rec.domain)) + 8

\* The rdata length the record's variant calls for, size(q) being the number
\* of bytes q's labels, their length octets and the closing zero take.
RdataSize(r) ==
    IF r.type = "A" THEN 4
    ELSE IF r.type = "Aaaa" THEN 16
    ELSE IF r.type \in {"Ns", "Cname"} THEN SumLens(r.host) + 1
    ELSE IF r.type = "Mx" THEN 2 + SumLens(r.host) + 1
    ELSE SumLens(r.primary_ns) + 1 + SumLens(r.email) + 1 + 20

\* C11: in the bytes DnsRecord::serialize writes for an A, AAAA, NS, CNAME, MX
\* or SOA record the rdlength field equals the number of rdata bytes that
\* follow it, which is the size the record's variant calls for.
C11_Rdlength ==
    (pc = "rec_serialized" /\ rec.type # "Unknown") =>
        /\ Field16(out, RdlengthAt) = Len(out) - (RdlengthAt + 2)
        /\ Field16(out, RdlengthAt) = RdataSize(rec)

\* C11 witness: an SOA record whose primary name server takes the full 255
\* bytes was written with rdlength 255 + 3 + 20.
C11_Witness ==
    /\ pc = "rec_serialized"
    /\ rec.type = "Soa"
    /\ SumLens(rec.primary_ns) + 1 = MAX_QNAME_LEN
    /\ rec.email = <<<<97>>>>
    /\ Field16(out, RdlengthAt) = 278
    /\ Len(out) = 1 + 10 + 278

\* C12: right after update_header the four counts of the header are the
\* lengths of the four vectors, and the id, the flags and the vectors are
\* those of the message before the call (kept in res).
C12_UpdateHeader ==
    pc = "hdr_updated" =>
        /\ msg.header.questions = Len(msg.questions)
        /\ msg.header.answers = Len(msg.answers)
        /\ msg.header.authoritative_entries = Len(msg.authorities)
        /\ msg.header.resource_entries = Len(msg.resources)
        /\ msg.header.id = res.val.header.id
        /\ msg.header.flags = res.val.header.flags
        /\ msg.questions = res.val.questions
        /\ msg.answers = res.val.answers
        /\ msg.authorities = res.val.authorities
        /\ msg.resources = res.val.resources

\* C12 witness: a message whose header said 1, 6, 0, 0 and whose vectors hold
\* 2, 0, 2 and 1 elements has had its header updated.
C12_Witness ==
    /\ pc = "hdr_updated"
    /\ res.val.header.answers = 6
    /\ res.val.header.questions = 1
    /\ Len(msg.questions) = 2
    /\ Len(msg.answers) = 0
    /\ Len(msg.authorities) = 2
    /\ Len(msg.resources) = 1
    /\ msg.header.answers = 0
    /\ msg.header.questions = 2

\* The (NS authority, A resource) pairs of msg for the name asked: the NS
\* record's domain is a suffix of the name and its host is the A record's
\* domain.
GluePairs ==
    {p \in (1..Len(msg.authorities)) \X (1..Len(msg.resources)) :
        /\ msg.authorities[p[1]].type = "Ns"
        /\ IsSuffix(msg.authorities[p[1]].domain, qname.val)
        /\ msg.resources[p[2]].type = "A"
        /\ msg.resources[p[2]].domain = msg.authorities[p[1]].host}

\* C14: get_resolved_ns returns the address of such a pair when it returns
\* Some, and returns None exactly when there is no such pair.
C14_ResolvedNs ==
    pc = "resolved_ns" =>
        /\ sel.ok => \E p \in GluePairs : msg.resources[p[2]].addr = sel.val
        /\ ~sel.ok <=> GluePairs = {}

\* The hosts of the NS authorities of msg whose domain is a suffix of the name
\* asked and for which no A resource has the host as its domain.
GluelessHosts ==
    {msg.authorities[k].host : k \in
        {n \in 1..Len(msg.authorities) :
            /\ msg.authorities[n].type = "Ns"
            /\ IsSuffix(msg.authorities[n].domain, qname.val)
            /\ \A j \in 1..Len(msg.resources) :
                   ~(msg.resources[j].type = "A"
                     /\ msg.resources[j].domain = msg.authorities[n].host)}}

\* C15: get_unresolved_ns returns such a host when it returns Some, and
\* returns None exactly when there is none.
C15_UnresolvedNs ==
    pc = "unresolved_ns" =>
        /\ sel.ok => sel.val \in GluelessHosts
        /\ ~sel.ok <=> GluelessHosts = {}

\* nq questions and then nr records read one after the other, each where the
\* one before ended; the first that fails to parse fails the lot.
RECURSIVE Items(_, _, _, _, _)
Items(input, b, nq, nr, acc) ==
    IF nq > 0
    THEN Try(DnsQuestion_parse(input, b), LAMBDA q :
             Items(q.rest, b, nq - 1, nr, Append(acc, q.val)))
    ELSE IF nr > 0
    THEN Try(DnsRecord_parse(input, b), LAMBDA r :
             Items(r.rest, b, nq, nr - 1, Append(acc, r.val)))
    ELSE [ok |-> TRUE, val |-> acc, rest |-> input]

\* C13: DnsMessage::parse succeeds exactly when the header and then qdcount
\* questions and ancount + nscount + arcount records parse one after the
\* other; the sections are then these items in this order, each section as
\* long as its count says, and when an item fails no message is returned.
C13_Sections ==
    pc = "msg_parsed" =>
        LET h == DnsHeader_parse(buf) IN
        IF ~h.ok THEN ~res.ok
        ELSE LET qd == h.val.questions
                 an == h.val.answers
                 ns == h.val.authoritative_entries
                 ar == h.val.resource_entries
                 all == Items(h.rest, buf, qd, an + ns + ar, <<>>)
             IN
             /\ res.ok <=> all.ok
             /\ res.ok =>
                    /\ res.val.header = h.val
                    /\ Len(res.val.questions) = qd
                    /\ Len(res.val.answers) = an
                    /\ Len(res.val.authorities) = ns
                    /\ Len(res.val.resources) = ar
                    /\ res.val.questions = SubSeq(all.val, 1, qd)
                    /\ res.val.answers = SubSeq(all.val, qd + 1, qd + an)
                    /\ res.val.authorities = SubSeq(all.val, qd + an + 1, qd + an + ns)
                    /\ res.val.resources =
                           SubSeq(all.val, qd + an + ns + 1, qd + an + ns + ar)
                    /\ res.rest = all.rest

\* C13 witness: a message of one question, one answer and one authority of
\* another type was parsed into its sections.
C13_Witness ==
    /\ pc = "msg_parsed"
    /\ res.ok
    /\ Len(res.val.questions) = 1
    /\ Len(res.val.answers) = 1
    /\ Len(res.val.authorities) = 1
    /\ Len(res.val.resources) = 0
    /\ res.val.answers[1].type = "Ns"
    /\ res.val.authorities[1].type = "A"
    /\ res.rest = <<>>

\* The reply ends a resolution: NoError with answers, or NxDomain.
Final(m) ==
    \/ m.header.flags.rescode = "NoError" /\ Len(m.answers) > 0
    \/ m.header.flags.rescode = "NxDomain"

\* The glue addresses of m for name: A resources named like the host of an NS
\* authority whose domain is a suffix of name.
GlueOf(m, name) ==
    {m.resources[k].addr : k \in
        {k \in DOMAIN m.resources :
            /\ m.resources[k].type = "A"
            /\ \E a \in DOMAIN m.authorities :
                   /\ m.authorities[a].type = "Ns"
                   /\ IsSuffix(m.authorities[a].domain, name)
                   /\ m.authorities[a].host = m.resources[k].domain}}

\* The hosts of the NS authorities of m whose domain is a suffix of name.
NsHostsOf(m, name) ==
    {m.authorities[a].host : a \in
        {a \in DOMAIN m.authorities :
            /\ m.authorities[a].type = "Ns"
            /\ IsSuffix(m.authorities[a].domain, name)}}

\* The addresses of the A records among the answers of m.
AnswersA(m) ==
    {m.answers[k].addr : k \in {k \in DOMAIN m.answers : m.answers[k].type = "A"}}

\* C16: a terminal reply (NoError with answers, or NxDomain) is returned as it
\* is with no further query of its resolution, the client gets the records and
\* the rescode of the reply the outermost resolution returns, and a reply is
\* returned only if it is terminal, or has no glue and no NS host for the
\* queried name, or is the referral whose NS host resolved to no A record.
C16_TerminalReturned ==
    [][/\ (pc = "reply" /\ Final(reply)) =>
              /\ pc' = "return"
              /\ reply' = reply
              /\ stack' = stack
              /\ queries' = queries
       /\ pc = "return" =>
              /\ queries' = queries
              /\ Len(stack') = Len(stack) - 1 \/ stack' = <<>>
              /\ pc' = "replied" =>
                     /\ client'.header.flags.rescode = reply.header.flags.rescode
                     /\ client'.answers = reply.answers
                     /\ client'.authorities = reply.authorities
                     /\ client'.resources = reply.resources
              /\ pc' = "return" =>
                     /\ AnswersA(reply) = {}
                     /\ reply' = stack[Len(stack) - 1].referral
       /\ (pc = "reply" /\ pc' = "return") =>
              \/ Final(reply)
              \/ GlueOf(reply, Top.qname) = {} /\ NsHostsOf(reply, Top.qname) = {}
      ]_vars

\* A terminal answer came after a referral and went to the client.
C16_Witness ==
    /\ pc = "replied"
    /\ Len(queries) = 2
    /\ client.answers = <<ACom>>
    /\ client.header.flags.rescode = "NoError"

\* The addresses of the A resources of m named like the host of one of its NS
\* authorities.
GlueAddrs(m) ==
    {m.resources[k].addr : k \in
        {k \in DOMAIN m.resources :
            /\ m.resources[k].type = "A"
            /\ \E a \in DOMAIN m.authorities :
                   /\ m.authorities[a].type = "Ns"
                   /\ m.authorities[a].host = m.resources[k].domain}}

\* C17: after a non-terminal reply with NS records for the queried name and
\* matching glue, the resolution goes on with the same (qname, qtype) at a
\* glue address of that reply, one that get_resolved_ns may return, and no
\* resolution of an NS host is started; the one query sent before the next
\* reply goes to that address.
C17_GlueReferral ==
    [][/\ (pc = "reply" /\ ~Final(reply) /\ GlueOf(reply, Top.qname) # {}) =>
              /\ pc' = "send"
              /\ Len(stack') = Len(stack)
              /\ stack'[Len(stack)].qname = Top.qname
              /\ stack'[Len(stack)].qtype = Top.qtype
              /\ stack'[Len(stack)].ns_ip \in GlueAddrs(reply)
              /\ Ok(stack'[Len(stack)].ns_ip) \in get_resolved_ns(reply, Top.qname)
              /\ \A k \in 1..(Len(stack) - 1) : stack'[k] = stack[k]
              /\ queries' = queries
       /\ pc = "send" =>
              /\ pc' = "await"
              /\ stack' = stack
              /\ Len(queries') > 0
              /\ queries'[Len(queries')] =
                     [ip |-> Top.ns_ip, qname |-> Top.qname, qtype |-> Top.qtype]
              /\ Len(queries) < MaxLog => Len(queries') = Len(queries) + 1
       /\ pc = "await" =>
              /\ queries' = queries
              /\ pc' \in {"reply", "replied"}
      ]_vars

\* The terminal reply to the one query that followed a referral with glue.
C17_Witness ==
    /\ pc = "reply"
    /\ Final(reply)
    /\ Len(stack) = 1
    /\ Len(queries) = 2
    /\ queries[1].ip \in RootServers
    /\ queries[2] = [ip |-> ANs1.addr, qname |-> QCom.name, qtype |-> QCom.qtype]

\* C18: after a non-terminal reply with NS records for the queried name and
\* no glue, one of those NS hosts is resolved with qtype A from a root server
\* while the referral is kept; when that resolution returns an A record among
\* its answers, the original (qname, qtype) goes to such an address, and when
\* it returns none, the referral is returned unchanged; a non-terminal reply
\* with no NS record for the queried name is returned as it is.
C18_GluelessReferral ==
    [][/\ (/\ pc = "reply" /\ ~Final(reply)
           /\ GlueOf(reply, Top.qname) = {}
           /\ NsHostsOf(reply, Top.qname) # {}) =>
              /\ pc' = "send"
              /\ queries' = queries
              /\ Len(stack') = Len(stack) + 1
              /\ stack'[Len(stack')].qname \in NsHostsOf(reply, Top.qname)
              /\ stack'[Len(stack')].qtype = [tag |-> "A"]
              /\ stack'[Len(stack')].ns_ip \in RootServers
              /\ stack'[Len(stack)] = [Top EXCEPT !.referral = reply]
       /\ (pc = "return" /\ Len(stack) > 1 /\ AnswersA(reply) # {}) =>
              /\ pc' = "send"
              /\ queries' = queries
              /\ Len(stack') = Len(stack) - 1
              /\ stack'[Len(stack')].qname = stack[Len(stack) - 1].qname
              /\ stack'[Len(stack')].qtype = stack[Len(stack) - 1].qtype
              /\ stack'[Len(stack')].ns_ip \in AnswersA(reply)
       /\ (pc = "return" /\ Len(stack) > 1 /\ AnswersA(reply) = {}) =>
              /\ pc' = "return"
              /\ queries' = queries
              /\ Len(stack') = Len(stack) - 1
              /\ reply' = stack[Len(stack) - 1].referral
       /\ \A k \in 1..(Len(stack) - 1) :
              k < Len(stack') => stack'[k].referral = stack[k].referral
       /\ (/\ pc = "reply" /\ ~Final(reply)
           /\ NsHostsOf(reply, Top.qname) = {}) =>
              /\ pc' = "return"
              /\ reply' = reply
              /\ stack' = stack
              /\ queries' = queries
      ]_vars

\* C19: when every upstream query is answered with a parseable reply, or
\* fails, and the task keeps running, a request that was received is replied
\* to in the end.
C19_Terminates == (pc = "request") ~> (pc = "replied")

\* C20: while a request with no question is handled, no upstream query is
\* sent and no resolution is started, and the reply to it has FormErr, the id
\* of the request and qr, rd and ra set, in the message and in the datagram.
C20_FormErr ==
    ("questions" \in DOMAIN request /\ request.questions = <<>>) =>
        /\ queries = <<>>
        /\ stack = <<>>
        /\ pc \in {"request", "replied"}
        /\ pc = "replied" =>
               /\ client.header.flags.rescode = "FormErr"
               /\ client.header.id = request.id
               /\ client.header.flags.response
               /\ client.header.flags.recursion_desired
               /\ client.header.flags.recursion_available
               /\ Len(out) = DNS_HEADER_LEN
               /\ out[1] * 256 + out[2] = request.id
               /\ out[3] \div 128 = 1
               /\ out[3] % 2 = 1
               /\ out[4] \div 128 = 1
               /\ out[4] % 16 = 1

\* The reply to a request with no question was emitted.
C20_Witness ==
    /\ pc = "replied"
    /\ "questions" \in DOMAIN request
    /\ request.questions = <<>>
    /\ request.id = 5940
    /\ out # <<>>

\* C21: when an upstream query fails, in the outermost resolution or in that
\* of an NS host, the client's reply has ServFail and empty sections; when the
\* resolution returns a reply, the client's reply has its rescode and its
\* answers, authorities and resources; in both cases the header counts are
\* the lengths of the sections.
C21_ServFailOrCopy ==
    [][/\ (pc = "await" /\ pc' # "reply") =>
              /\ pc' = "replied"
              /\ client'.header.flags.rescode = "ServFail"
              /\ client'.answers = <<>>
              /\ client'.authorities = <<>>
              /\ client'.resources = <<>>
       /\ (pc = "return" /\ pc' = "replied") =>
              /\ Len(stack) = 1
              /\ client'.header.flags.rescode = reply.header.flags.rescode
              /\ client'.answers = reply.answers
              /\ client'.authorities = reply.authorities
              /\ client'.resources = reply.resources
       /\ pc' = "replied" =>
              /\ client'.header.id = request.id
              /\ client'.header.answers = Len(client'.answers)
              /\ client'.header.authoritative_entries = Len(client'.authorities)
              /\ client'.header.resource_entries = Len(client'.resources)
              /\ out' = Emitted(client')
      ]_vars

\* The query for an NS host failed and the client got ServFail.
C21_Witness ==
    /\ pc = "replied"
    /\ Len(queries) = 2
    /\ queries[2].qname = Ns1
    /\ client.header.flags.rescode = "ServFail"
    /\ client.answers = <<>>

\* C22: every upstream query and every reply sent to the client is at most
\* MAX_DNS_MSG_SIZE bytes long.
C22_MaxSize ==
    /\ \A k \in DOMAIN queries :
           Len(Emitted(QueryMessage(queries[k].qname, queries[k].qtype)))
               <= MAX_DNS_MSG_SIZE
    /\ pc = "replied" => Len(out) <= MAX_DNS_MSG_SIZE

\* The ResultCode the claim gives for a four-bit value (NoTimp is the
\* source's name of NotImp).
CodeOf(v) ==
    CASE v = 1 -> "FormErr" [] v = 2 -> "ServFail" [] v = 3 -> "NxDomain"
      [] v = 4 -> "NoTimp" [] v = 5 -> "Refused" [] OTHER -> "NoError"

\* C23: the flags of a parsed header are the bits of the two flag octets:
\* response, opcode (4 bits), authoritative_answer, truncated_message,
\* recursion_desired from the first, most significant bit first, and
\* recursion_available, z, authed_data, checking_disabled, rescode (4 bits)
\* from the second, the rescode being FormErr..Refused for 1..5 and NoError
\* for 0 and 6..15.
C23_Flags ==
    (pc = "hdr_parsed" /\ res.ok) =>
        LET f1 == buf[3]
            f2 == buf[4]
            f == res.val.flags IN
        /\ f.response = (f1 \div 128 = 1)
        /\ f.opcode = (f1 \div 8) % 16
        /\ f.authoritative_answer = ((f1 \div 4) % 2 = 1)
        /\ f.truncated_message = ((f1 \div 2) % 2 = 1)
        /\ f.recursion_desired = (f1 % 2 = 1)
        /\ f.recursion_available = (f2 \div 128 = 1)
        /\ f.z = ((f2 \div 64) % 2 = 1)
        /\ f.authed_data = ((f2 \div 32) % 2 = 1)
        /\ f.checking_disabled = ((f2 \div 16) % 2 = 1)
        /\ f.rescode = CodeOf(f2 % 16)

\* A header with the octets 0x85 0x6A was parsed: rescode bits 10, NoError.
C23_Witness ==
    /\ pc = "hdr_parsed"
    /\ res.ok
    /\ buf[3] = 129
    /\ buf[4] = 106
    /\ res.val.flags.rescode = "NoError"
    /\ res.val.flags.authed_data
    /\ ~res.val.flags.checking_disabled

\* C24: peek_u8(pos) fails with BoundError exactly when pos >= n, and
\* peek_range(start, len) fails with BoundError exactly when start + len > n,
\* n being the length of the buffer.
C24_Bounds ==
    /\ pc = "peeked_u8" =>
           ((~res.ok /\ res.err = "BoundError") <=> (other[1] >= Len(buf)))
    /\ pc = "peeked_range" =>
           /\ (~res.ok /\ res.err = "BoundError") <=> (other[1] + other[2] > Len(buf))
           /\ res.ok => res.val = SubSeq(buf, other[1] + 1, other[1] + other[2])

\* m with the Unknown records taken out of its three record sections.
RECURSIVE Known(_)
Known(rs) ==
    IF rs = <<>> THEN <<>>
    ELSE IF Head(rs).type = "Unknown" THEN Known(Tail(rs))
    ELSE <<Head(rs)>> \o Known(Tail(rs))

WithoutUnknown(m) ==
    [m EXCEPT !.answers = Known(m.answers), !.authorities = Known(m.authorities),
              !.resources = Known(m.resources)]

\* C25: serializing succeeds and an Unknown record adds no byte: the header
\* written is that of the message, and the bytes after it are those written
\* for the message without its Unknown records.
C25_UnknownOmitted ==
    pc = "msg_serialized" =>
        /\ res.ok
        /\ out = res.val
        /\ Take(out, DNS_HEADER_LEN) = DnsHeader_serialize(msg.header)
        /\ Drop(out, DNS_HEADER_LEN) =
               Drop(Emitted(WithoutUnknown(msg)), DNS_HEADER_LEN)
        /\ msg.answers = <<UnknownCom>> =>
               Len(out) = Len(Emitted([msg EXCEPT !.answers = <<>>]))

\* A message with an A and an Unknown answer was serialized.
C25_Witness ==
    /\ pc = "msg_serialized"
    /\ msg.answers = <<UnknownCom, ACom>>
    /\ msg.authorities = <<>>
    /\ msg.resources = <<>>
    /\ msg.questions = <<>>
    /\ Len(out) = DNS_HEADER_LEN + 19

\* The offset after n questions that start at offset pos.
RECURSIVE AfterQuestions(_, _, _)
AfterQuestions(b, pos, n) ==
    IF n = 0 THEN pos ELSE AfterQuestions(b, pos + NameLen(b, pos) + 4, n - 1)

\* The number of resource records that lie, by the wire format, between
\* offset pos and the end of b.
RECURSIVE RecordsIn(_, _)
RecordsIn(b, pos) ==
    IF pos >= Len(b) THEN 0
    ELSE LET at == pos + NameLen(b, pos) IN
         1 + RecordsIn(b, at + 10 + Field16(b, at + 8))

\* C29: in a message serialized after update_header, ancount, nscount and
\* arcount of the header written add up to the number of resource records
\* in the bytes written, and none of them exceeds it.
C29_CountsEmitted ==
    pc = "msg_serialized" =>
        LET present == RecordsIn(out, AfterQuestions(out, DNS_HEADER_LEN, Field16(out, 4)))
        IN  /\ Field16(out, 6) + Field16(out, 8) + Field16(out, 10) = present
            /\ Field16(out, 6) = Len(Known(msg.answers))
            /\ Field16(out, 8) = Len(Known(msg.authorities))
            /\ Field16(out, 10) = Len(Known(msg.resources))

\* The variant the claim gives for a 16-bit type value.
TagOf(v) ==
    CASE v = 1 -> "A" [] v = 2 -> "Ns" [] v = 5 -> "Cname" [] v = 6 -> "Soa"
      [] v = 15 -> "Mx" [] v = 28 -> "Aaaa" [] OTHER -> "Unknown"

\* The 16-bit value QueryType::parse read in a parsed question: the two
\* bytes before the class field, which ends the consumed input.
TypeRead == Field16(i, Len(i) - Len(res.rest) - 4)

\* C26: the QueryType of a 16-bit value v is the variant of 1, 2, 5, 6, 15,
\* 28 or Unknown(v), converting it back gives v, and serializing a parsed
\* QueryType writes the two bytes that were read; the conversions are also
\* compared on all 65536 values.
C26_QueryTypeRoundTrip ==
    /\ (pc \in {"q_parsed", "q_serialized"} /\ res.ok) =>
           /\ res.val.qtype.tag = TagOf(TypeRead)
           /\ res.val.qtype.tag = "Unknown" => res.val.qtype.x = TypeRead
           /\ u16_from_QueryType(res.val.qtype) = TypeRead
           /\ QueryType_serialize(res.val.qtype) = U16(TypeRead)
    /\ pc = "q_serialized" =>
           SubSeq(out, Len(out) - 3, Len(out) - 2) = U16(TypeRead)
    /\ (pc = "q_serialized" /\ out = <<0, 255, 255, 0, 1>> /\ buf[2] = 0) =>
           \A v \in 0..65535 :
               /\ QueryType_from_u16(v).tag = TagOf(v)
               /\ u16_from_QueryType(QueryType_from_u16(v)) = v
               /\ QueryType_serialize(QueryType_parse(U16(v)).val) = U16(v)

\* A question of type 6 was parsed as SOA and written back.
C26_Witness ==
    /\ pc = "q_serialized"
    /\ res.val.qtype.tag = "Soa"
    /\ TypeRead = 6
    /\ out = <<0, 0, 6, 0, 1>>

\* The iterations read_qname's loop is given in the check of its progress:
\* at most MAX_JUMPS + 1 pointers, and between two of them one iteration for
\* each position of the buffer and one more.
RqFuel(b) == (MAX_JUMPS + 2) * (Len(b) + 2)

\* The loop of read_qname leaves state s within n iterations, and each
\* iteration that stays in the loop follows a pointer, at most MAX_JUMPS + 1
\* of them, or moves pos forward to a position of the buffer.
RECURSIVE RqProgress(_, _, _)
RqProgress(b, s, n) ==
    \/ s.st # "loop"
    \/ /\ n > 0
       /\ \/ RqStep(b, s).st # "loop"
          \/ /\ RqStep(b, s).jumps_performed = s.jumps_performed + 1
             /\ RqStep(b, s).jumps_performed <= MAX_JUMPS + 1
          \/ /\ RqStep(b, s).jumps_performed = s.jumps_performed
             /\ RqStep(b, s).pos > s.pos
             /\ RqStep(b, s).pos < Len(b)
       /\ RqProgress(b, RqStep(b, s), n - 1)

\* C27: read_qname returns on every buffer and every start cursor, with a
\* Qname and a suffix of its input or with an error and never a panic; each
\* iteration of its loop follows one of at most MAX_JUMPS + 1 pointers or
\* moves the read position forward inside the buffer.
C27_Terminates ==
    pc = "read" =>
        /\ RqProgress(buf, RqInit(buf, i), RqFuel(buf))
        /\ res.ok \/ res.fail = "Failure"
        /\ res.ok => /\ Len(res.rest) <= Len(i)
                     /\ res.rest = Drop(i, Len(i) - Len(res.rest))

\* A name that runs into a cycle of pointers was read and refused after
\* MAX_JUMPS + 1 pointers.
C27_Witness ==
    /\ pc = "read"
    /\ ~res.ok
    /\ res.err = "JumpLimitExceeded"
    /\ res.jumps = MAX_JUMPS + 1

\* The offset at which n resource records that start at offset pos end by
\* the wire format, each rdata being rdlength bytes; Len(b) + 1 when they do
\* not fit in b.
RECURSIVE RecordsEnd(_, _, _)
RecordsEnd(b, pos, n) ==
    IF n = 0 THEN pos
    ELSE IF pos >= Len(b) \/ pos + NameLen(b, pos) + 10 > Len(b)
    THEN Len(b) + 1
    ELSE RecordsEnd(b, pos + NameLen(b, pos) + 10
                        + Field16(b, pos + NameLen(b, pos) + 8), n - 1)

\* C28: when a message is parsed, the input that remains after its records
\* begins where the wire format puts the end of the last record, each
\* record ending rdlength bytes after its rdlength field.
C28_RdlengthHonoured ==
    (pc = "msg_parsed" /\ res.ok) =>
        Len(buf) - Len(res.rest) =
            RecordsEnd(buf, AfterQuestions(buf, DNS_HEADER_LEN, Field16(buf, 4)),
                       Field16(buf, 6) + Field16(buf, 8) + Field16(buf, 10))

\* Labels of lower-case ASCII: no octet is an upper-case letter or above 127.
LowerCase(q) ==
    \A k \in 1..Len(q) : \A j \in 1..Len(q[k]) :
        q[k][j] < 128 /\ ~(q[k][j] \in 65..90)

\* The names of record r.
NamesOf(r) ==
    {r.domain}
    \cup (IF r.type \in {"Ns", "Cname", "Mx"} THEN {r.host} ELSE {})
    \cup (IF r.type = "Soa" THEN {r.primary_ns, r.email} ELSE {})

\* C30: the bytes DnsRecord::serialize writes for an A, AAAA, NS, CNAME, MX
\* or SOA record with valid lower-case names parse, as a buffer of their
\* own, to the same record with no input left.
C30_RecordRoundTrip ==
    (/\ pc = "rec_reparsed"
     /\ rec.type # "Unknown"
     /\ \A q \in NamesOf(rec) : ValidLabels(q) /\ LowerCase(q)) =>
        /\ res.ok
        /\ res.rest = <<>>
        /\ res.val = rec

\* An SOA record with two one-label names was written and read back.
C30_Witness ==
    /\ pc = "rec_reparsed"
    /\ rec.type = "Soa"
    /\ rec.primary_ns = <<<<97>>>>
    /\ rec.email = <<<<97>>, <<98>>>>
    /\ res.ok
    /\ res.val.email = <<<<97>>, <<98>>>>
    /\ Len(buf) = 1 + 10 + 3 + 5 + 20


====
